---- MODULE Spec2Model ----
(***************************************************************************)
(* Lifecycle and animation loop of the gradient effects of hikari-effects  *)
(* (BalatroGradient and MorphGradient) together with the canvas wrapper    *)
(* component that mounts them.                                             *)
(*                                                                         *)
(* Time is counted in units of 1/Scale millisecond so that the clamp       *)
(* 1000 / maxFrameTimeStep of the animation loop is a whole number for     *)
(* the frame-time-step settings that are explored.                         *)
(***************************************************************************)
EXTENDS Integers, Sequences, FiniteSets, TLC

\* ------------------------------------------------------------------ bounds
Scale == 3          \* time units per millisecond
DeltaFast == 48     \* a 16 ms frame
DeltaSlow == 300    \* a delayed, 100 ms frame
MaxTime == 240      \* the clock saturates here
MaxQueue == 2       \* play() is not explored beyond this many pending callbacks
WideViewport == 800   \* window.innerWidth of a wide window
NarrowViewport == 400 \* window.innerWidth of a narrow window
DensityScale == 100   \* densities are counted in units of 1/DensityScale
ElapseStep == 100     \* milliseconds that pass in one step of the timers' clock
FreqSteps == 2        \* updateFrequency moves freqX up to this many steps away
MaxWaveColors == 2    \* entries of options.waveColors
MaxColorIndex == 4     \* toggleColor is called with indexes up to this one
MaxSeg == 2           \* segment counts handed to a PlaneGeometry that is driven directly
SizeSteps == 10       \* canvas widths and heights are explored up to this many steps

Deltas == {DeltaFast, DeltaSlow}

\* ------------------------------------------------------- program constants
DefaultMaxFrameTimeStep == 60
DocsMaxFrameTimeStep == 30
MorphT0 == 1253106
Height == 600             \* the effects' height field
Uint16Modulus == 65536    \* a Uint16Array element keeps its value modulo 2^16
ColorMax == 255           \* hexToVec4 divides each channel by 255
HexBase == 16             \* parseInt(.., 16)
LineWidth == 15           \* lineWidth(1.5), in tenths
DefaultWidth == 640       \* setSize(width = 640, ..)
DefaultHeight == 480      \* setSize(.., height = 480)
FreqX == 14               \* freqX = 14e-5, in units of 1e-5
FreqY == 29               \* freqY = 29e-5, in units of 1e-5
scrollingRefreshDelay == 200  \* milliseconds

\* a character of a colour string that is no hexadecimal digit
NonHex == HexBase

Kinds == {"balatro", "morph"}
FrameTimeSteps == {0, DocsMaxFrameTimeStep, DefaultMaxFrameTimeStep}
Callbacks == {"deferredInit", "animate"}
ListenerNames == {"scroll", "resize", "mousemove"}

\* mouse positions are pairs in halves of the canvas extent: <<1, 1>> is [0.5, 0.5]
Center == <<1, 1>>
Corner == <<2, 0>>

\* the timestamp argument of animate: <<>> when it is undefined, <<ts>> otherwise
Undefined == <<>>

Min(a, b) == IF a <= b THEN a ELSE b

\* -------------------------------------------------------------------- state
VARIABLES
  kind,                \* which effect class the instance is
  optMaxFrameTimeStep, \* options.maxFrameTimeStep handed to the constructor
  optMouseInteraction, \* options.mouseInteraction handed to the constructor
  selectorMatches,     \* does document.querySelector(selector) find the canvas
  constructed,         \* the wrapper's mount effect has run `new Effect(options)`
  canvasElement,       \* canvasElement / el is non-null
  hikari,              \* hikari (the render context) is non-null
  mesh,                \* mesh, material, geometry and the uniform set exist
  maxFrameTimeStep,    \* BalatroGradient.maxFrameTimeStep
  mouseInteraction,    \* BalatroGradient.mouseInteraction
  conf_playing,        \* conf.playing
  isScrolling,
  isIntersecting,
  scrollingTimeout,    \* the handle in scrollingTimeout is that of a pending timer
  listeners,           \* event listeners currently registered
  mousePosition,       \* BalatroGradient.mousePosition, in halves of the canvas
  t,                   \* time accumulator
  last,                \* last processed timestamp
  u_time,              \* <<numerator, denominator>> of the u_time uniform value
  rafQueue,            \* callbacks requested for the next animation frame
  frameBatch,          \* callbacks of the frame being delivered, not yet run
  clock,               \* timestamp of the current / latest frame
  hidden,              \* document.hidden
  onInitCalls,         \* how often the wrapper invoked onInit
  disconnected,        \* disconnect() has been called
  pausedNoPlay,        \* pause() was called and no play() since
  lastOp,              \* the handler that ran last, with its outcome
  innerWidth,          \* window.innerWidth
  optDensity,          \* options.density handed to the constructor, <<>> if absent
  width,               \* the effect's width field
  conf_density,        \* conf.density, in units of 1/DensityScale
  color1,              \* BalatroGradient.color1, as its hexadecimal digits
  u_color1,            \* uniforms.u_color1.value in 1/ColorMax, <<>> before it exists
  material,            \* the Material: program, shaders, link, uniformInstances
  geometry,            \* the PlaneGeometry with its four attribute buffers
  lastDraw,            \* what the latest Mesh.draw() handed to the GL context
  glCompiles,          \* the shader types the driver compiles successfully
  glLinks,             \* does the driver link the program
  glUnresolved,        \* the uniform names for which getUniformLocation is null
  uniformMap,          \* the uniform map handed to `new Material`
  consoleErrors,       \* number of console.error calls
  quad,                \* the grid cell written last by setTopology's loop
  optWireframe,        \* options.wireframe handed to the constructor
  conf_wireframe,      \* conf.wireframe
  wireframe,           \* mesh.wireframe
  hikariGL,            \* the HikariGL: size, canvas, viewport, common uniform values
  optionBaseColor,     \* MorphGradient.optionBaseColor, << >> for null
  optionWaveColors,    \* MorphGradient.optionWaveColors, << >> for null
  sectionColors,       \* MorphGradient.sectionColors, each [r, g, b] in 1/ColorMax
  freq,                \* <<freqX, freqY>> in units of 1e-5
  u_noiseFreq,         \* u_global.noiseFreq.value, << >> before it exists
  timers,              \* milliseconds left of each pending setTimeout, oldest first
  sinceScroll,         \* milliseconds since the latest scroll event or the page load
  declaration,         \* the latest Uniform.getDeclaration call and what it returned
  conf_zoom,           \* conf.zoom, a fraction <<numerator, denominator>>
  conf_rotation,       \* conf.rotation, in degrees
  projectionMatrix,    \* elements 0, 1, 4, 5 of commonUniforms.projectionMatrix.value
  activeColors,        \* MorphGradient.activeColors: <<v>> per element, << >> for a hole
  topologyCalls        \* <<xSegCount, ySegCount>> of each setTopology call of the latest
                       \* handler of the effect that called it, in order

vars == <<kind, optMaxFrameTimeStep, optMouseInteraction, selectorMatches,
          constructed, canvasElement, hikari, mesh, maxFrameTimeStep,
          mouseInteraction, conf_playing, isScrolling, isIntersecting,
          scrollingTimeout, listeners, mousePosition, t, last, u_time, rafQueue, frameBatch,
          clock, hidden, onInitCalls, disconnected, pausedNoPlay, lastOp,
          innerWidth, optDensity, width, conf_density, color1, u_color1,
          material, geometry, lastDraw, glCompiles, glLinks, glUnresolved,
          uniformMap, consoleErrors, quad, optWireframe, conf_wireframe,
          wireframe, hikariGL, optionBaseColor, optionWaveColors,
          sectionColors, freq, u_noiseFreq, timers, sinceScroll, declaration,
          conf_zoom, conf_rotation, projectionMatrix, activeColors,
          topologyCalls>>

options == <<kind, optMaxFrameTimeStep, optMouseInteraction, selectorMatches>>

\* the variables of the animation loop and of the listeners
loop == <<constructed, canvasElement, hikari, mesh, maxFrameTimeStep,
          mouseInteraction, conf_playing, isScrolling, isIntersecting,
          scrollingTimeout, listeners, mousePosition, t, last, u_time,
          rafQueue, frameBatch, clock, hidden, onInitCalls, disconnected,
          pausedNoPlay>>

\* the window, the driver and the inputs of a Material under construction
environment == <<innerWidth, optDensity, glCompiles, glLinks, glUnresolved,
                 uniformMap, optWireframe>>

\* what the effect owns of the graphics objects
graphics == <<width, conf_density, color1, u_color1, material, geometry,
              topologyCalls, lastDraw, consoleErrors>>

\* the mesh's drawing mode and the render context's size
render == <<conf_wireframe, wireframe, hikariGL>>

\* MorphGradient's colours and noise frequency
palette == <<optionBaseColor, optionWaveColors, sectionColors, activeColors>>
noise == <<freq, u_noiseFreq>>

\* the scroll-settle timers
debounce == <<timers, sinceScroll>>

\* the projection and what MorphGradient derives it from
camera == <<conf_zoom, conf_rotation, projectionMatrix>>

\* number of animate callbacks that are requested and have not run yet
CountAnimate(q) == Cardinality({i \in DOMAIN q : q[i] = "animate"})
PendingAnimate == CountAnimate(rafQueue) + CountAnimate(frameBatch)

\* no callback of a frame is half-way: the event loop is free for other tasks
Idle == frameBatch = <<>>

\* ------------------------------------------------------------ pure helpers

\* shouldSkipFrame without the document.hidden test
shouldSkipFrame_ignoresHidden(timestamp) ==
  ~conf_playing \/ timestamp = Undefined

\* shouldSkipFrame without the conf.playing test
shouldSkipFrame_ignoresPlaying(timestamp) ==
  hidden \/ timestamp = Undefined

\* shouldSkipFrame(timestamp)
shouldSkipFrame(timestamp) ==
  hidden \/ ~conf_playing \/ timestamp = Undefined

\* animate: `if (this.last === 0) this.last = timestamp` (MorphGradient only)
SeedLast(now) ==
  IF kind = "morph" /\ last = 0 THEN now ELSE last

\* the time step with maxFrameTimeStep read as a number of milliseconds
TimeStep_clampsToMilliseconds(delta) ==
  IF kind = "morph"
    THEN delta
    ELSE IF maxFrameTimeStep = 0
           THEN delta
           ELSE Min(delta, maxFrameTimeStep * Scale)

\* animate: the amount added to t for a frame delta
TimeStep(delta) ==
  IF kind = "morph"
    THEN delta
    ELSE IF maxFrameTimeStep = 0
           THEN delta
           ELSE Min(delta, (1000 * Scale) \div maxFrameTimeStep)

\* animate: `this.uniforms.u_time.value = this.t * 0.001` (BalatroGradient),
\* `this.mesh.material.uniforms.u_time.value = this.t` (MorphGradient)
TimeUniform(tt) ==
  IF kind = "balatro" THEN <<tt, 1000>> ELSE <<tt, 1>>

\* animate: `if (this.conf.playing) requestAnimationFrame(this.animate)`
Reschedule(q) ==
  IF conf_playing THEN Append(q, "animate") ELSE q

\* play: `requestAnimationFrame(this.animate)`
PlayRequest(q) == Append(q, "animate")

\* handleScroll: the condition under which a scroll event pauses playback
ScrollPauses ==
  conf_playing /\ ~isScrolling /\ ~isIntersecting

\* disconnect: the listeners that stay registered
DisconnectListeners(ls) ==
  (ls \ {"scroll", "resize"}) \
    (IF kind = "balatro" /\ canvasElement /\ mouseInteraction
       THEN {"mousemove"} ELSE {})

\* init: the listeners registered once the deferred initialisation has run
InitListeners(ls) == ls \cup {"resize"}

\* connect: the listeners registered by connect()
ConnectListeners(mi) ==
  {"scroll"} \cup (IF kind = "balatro" /\ mi THEN {"mousemove"} ELSE {})

\* --------------------------------------------------------- PlaneGeometry

\* orientations, as the two axis letters of the orientation string
XZ == <<"x", "z">>
XY == <<"x", "y">>
Orientations == {XZ, XY}

\* 'xyz'.indexOf(letter), counted from 1
AxisIndex(letter) ==
  CASE letter = "x" -> 1
    [] letter = "y" -> 2
    [] letter = "z" -> 3

\* Math.ceil(a / b) for a >= 0 and b > 0
CeilDiv(a, b) == (a + b - 1) \div b

\* Math.ceil(extent * density), the density being d / DensityScale
SegCount(extent, d) == CeilDiv(extent * d, DensityScale)

\* an attribute whose `values` is undefined
NoValues == [defined |-> FALSE]

\* a typed array of n entries filled by setTopology's loop for an xs by ys grid
Generated(n, xs, ys) == [defined |-> TRUE, len |-> n, xSeg |-> xs, ySeg |-> ys]

\* one coordinate of all vertices of the position array: all zero, or as the
\* loop of setSize wrote it for an extent over an xs by ys grid
Zeros == <<>>
Written(role, extent, xs, ys) == <<role, extent, xs, ys>>

\* new Float32Array(n) for the positions
Fresh(n) == [defined |-> TRUE, len |-> n, axes |-> <<Zeros, Zeros, Zeros>>]

AttributeNames == {"position", "uv", "uvNorm", "index"}

\* the geometry once its four attributes are created and before setTopology
NoGeometry ==
  [xSegCount |-> 0, ySegCount |-> 0, vertexCount |-> 0, quadCount |-> 0,
   width |-> 0, height |-> 0, orientation |-> XZ,
   position |-> NoValues, uv |-> NoValues, uvNorm |-> NoValues,
   index |-> NoValues, uploaded |-> {}]

\* setTopology that allocates two index entries per triangle
setTopology_twoPerTriangle(g, xSegments, ySegments) ==
  LET vertexCount == (xSegments + 1) * (ySegments + 1)
      quadCount == xSegments * ySegments * 2
  IN [g EXCEPT !.xSegCount = xSegments,
               !.ySegCount = ySegments,
               !.vertexCount = vertexCount,
               !.quadCount = quadCount,
               !.uv = Generated(2 * vertexCount, xSegments, ySegments),
               !.uvNorm = Generated(2 * vertexCount, xSegments, ySegments),
               !.index = Generated(2 * quadCount, xSegments, ySegments),
               !.uploaded = {"uv", "uvNorm", "index"}]

\* PlaneGeometry.setTopology(xSegments, ySegments)
setTopology(g, xSegments, ySegments) ==
  LET vertexCount == (xSegments + 1) * (ySegments + 1)
      quadCount == xSegments * ySegments * 2
  IN [g EXCEPT !.xSegCount = xSegments,
               !.ySegCount = ySegments,
               !.vertexCount = vertexCount,
               !.quadCount = quadCount,
               !.uv = Generated(2 * vertexCount, xSegments, ySegments),
               !.uvNorm = Generated(2 * vertexCount, xSegments, ySegments),
               !.index = Generated(3 * quadCount, xSegments, ySegments),
               !.uploaded = {"uv", "uvNorm", "index"}]

\* setSize: the position array it writes into
PositionArray(g) ==
  IF ~g.position.defined
    THEN Fresh(3 * g.vertexCount)
    ELSE IF g.position.len # 3 * g.vertexCount
      THEN Fresh(3 * g.vertexCount)
      ELSE g.position

\* setSize that regenerates and uploads the texture coordinates as well
setSize_regeneratesUv(g, w, h, orientation) ==
  LET pos == PositionArray(g)
      first == [pos.axes EXCEPT ![AxisIndex(orientation[1])] =
                  Written("xPos", w, g.xSegCount, g.ySegCount)]
      both == [first EXCEPT ![AxisIndex(orientation[2])] =
                  Written("yPos", h, g.xSegCount, g.ySegCount)]
  IN [g EXCEPT !.width = w,
               !.height = h,
               !.orientation = orientation,
               !.position = [pos EXCEPT !.axes = both],
               !.uv = Generated(2 * g.vertexCount, w, h),
               !.uploaded = {"position", "uv"}]

\* PlaneGeometry.setSize(width, height, orientation)
setSize(g, w, h, orientation) ==
  LET pos == PositionArray(g)
      first == [pos.axes EXCEPT ![AxisIndex(orientation[1])] =
                  Written("xPos", w, g.xSegCount, g.ySegCount)]
      both == [first EXCEPT ![AxisIndex(orientation[2])] =
                  Written("yPos", h, g.xSegCount, g.ySegCount)]
  IN [g EXCEPT !.width = w,
               !.height = h,
               !.orientation = orientation,
               !.position = [pos EXCEPT !.axes = both],
               !.uploaded = {"position"}]

\* new PlaneGeometry(context, width, height, xSegments, ySegments, orientation)
NewPlaneGeometry(w, h, xSegments, ySegments, orientation) ==
  [setSize(setTopology(NoGeometry, xSegments, ySegments), w, h, orientation)
     EXCEPT !.uploaded = AttributeNames]

\* what a Uint16Array element holds after a number is stored into it
ToUint16(n) == n % Uint16Modulus

\* setTopology: `vertexIndex = y * (xSegCount + 1) + x`
VertexIndex(xs, x, y) == y * (xs + 1) + x

\* setTopology: what is added to vertexIndex for the six entries of a cell
QuadOffsets(xs) == <<0, 1 + xs, 1, 1, 1 + xs, 2 + xs>>

\* setTopology: the six entries stored into the index array for cell (x, y)
QuadIndices(xs, x, y) ==
  [j \in 1..6 |-> ToUint16(VertexIndex(xs, x, y) + QuadOffsets(xs)[j])]

\* the entry at offset k (from 0) of a generated index array
IndexAt(ix, k) ==
  LET quadIndex == k \div 6
  IN QuadIndices(ix.xSeg, quadIndex % ix.xSeg, quadIndex \div ix.xSeg)[(k % 6) + 1]

\* ------------------------------------------------------ Uniform, Material

\* the location getUniformLocation returns for a name the driver cannot resolve
Null == "null"

\* uniforms: a leaf of a basic type, an array of uniforms, a struct of named fields
Leaf(type) == [type |-> type]
ArrayOf(elements) == [type |-> "array", value |-> elements]
StructOf(fields) == [type |-> "struct", value |-> fields]

\* HikariGL.commonUniforms
CommonUniforms ==
  << <<"projectionMatrix", Leaf("mat4")>>, <<"modelViewMatrix", Leaf("mat4")>>,
     <<"resolution", Leaf("vec2")>>, <<"aspectRatio", Leaf("float")>> >>

\* the uniform set BalatroGradient.initMaterial creates
BalatroUniforms ==
  << <<"u_time", Leaf("float")>>, <<"u_spinRotation", Leaf("float")>>,
     <<"u_spinSpeed", Leaf("float")>>, <<"u_offset", Leaf("vec2")>>,
     <<"u_color1", Leaf("vec4")>>, <<"u_color2", Leaf("vec4")>>,
     <<"u_color3", Leaf("vec4")>>, <<"u_contrast", Leaf("float")>>,
     <<"u_lighting", Leaf("float")>>, <<"u_spinAmount", Leaf("float")>>,
     <<"u_pixelFilter", Leaf("float")>>, <<"u_spinEase", Leaf("float")>>,
     <<"u_isRotate", Leaf("bool")>>, <<"u_mouse", Leaf("vec2")>> >>

\* one element of MorphGradient's u_waveLayers
WaveLayer ==
  StructOf(<< <<"color", Leaf("vec3")>>, <<"noiseFreq", Leaf("vec2")>>,
              <<"noiseSpeed", Leaf("float")>>, <<"noiseFlow", Leaf("float")>>,
              <<"noiseSeed", Leaf("float")>>, <<"noiseFloor", Leaf("float")>>,
              <<"noiseCeil", Leaf("float")>> >>)

\* the uniform set MorphGradient.initMaterial creates for the default colours
MorphUniforms ==
  << <<"u_time", Leaf("float")>>, <<"u_shadow_power", Leaf("float")>>,
     <<"u_darken_top", Leaf("float")>>, <<"u_active_colors", Leaf("vec4")>>,
     <<"u_global", StructOf(<< <<"noiseFreq", Leaf("vec2")>>,
                               <<"noiseSpeed", Leaf("float")>> >>)>>,
     <<"u_vertDeform",
       StructOf(<< <<"incline", Leaf("float")>>, <<"offsetTop", Leaf("float")>>,
                   <<"offsetBottom", Leaf("float")>>, <<"noiseFreq", Leaf("vec2")>>,
                   <<"noiseAmp", Leaf("float")>>, <<"noiseSpeed", Leaf("float")>>,
                   <<"noiseFlow", Leaf("float")>>, <<"noiseSeed", Leaf("float")>> >>)>>,
     <<"u_baseColor", Leaf("vec3")>>,
     <<"u_waveLayers", ArrayOf(<<WaveLayer, WaveLayer, WaveLayer>>)>> >>

\* the uniform maps a Material is constructed with when it is driven directly
UniformMaps ==
  { << <<"color", Leaf("vec3")>> >>,
    << <<"u_time", Leaf("float")>>,
       <<"u_layers", ArrayOf(<< StructOf(<< <<"color", Leaf("vec3")>> >>),
                                StructOf(<< <<"color", Leaf("vec3")>> >>) >>)>> >>,
    << <<"u_global", StructOf(<< <<"noiseFreq", Leaf("vec2")>>,
                                 <<"noiseSpeed", Leaf("float")>> >>)>>,
       <<"u_steps", ArrayOf(<< Leaf("float"), Leaf("float") >>)>> >>,
    << <<"u_time", Leaf("float")>>, <<"u_empty", ArrayOf(<< >>)>> >> }

RECURSIVE Concat(_)
\* the concatenation of a sequence of sequences
Concat(ss) ==
  IF Len(ss) = 0 THEN << >> ELSE Head(ss) \o Concat(Tail(ss))

RECURSIVE uniformNames(_, _)
\* Material.attachUniforms(name, uniform) for a defined name: the names it
\* hands to getUniformLocation, in the order of the calls; an array recurses
\* with `name[i]`, a struct with `name.field`
uniformNames(name, uniform) ==
  IF uniform.type = "array"
    THEN Concat([i \in 1..Len(uniform.value) |->
                   uniformNames(name \o "[" \o ToString(i - 1) \o "]",
                                uniform.value[i])])
    ELSE IF uniform.type = "struct"
      THEN Concat([i \in 1..Len(uniform.value) |->
                     uniformNames(name \o "." \o uniform.value[i][1],
                                  uniform.value[i][2])])
      ELSE <<name>>

\* Material.attachUniforms(undefined, uniforms): the names of every entry
mapNames(uniforms) ==
  Concat([i \in 1..Len(uniforms) |->
            uniformNames(uniforms[i][1], uniforms[i][2])])

\* the names of the maps that are the same in every run
CommonNames == mapNames(CommonUniforms)
BalatroNames == mapNames(BalatroUniforms)
MorphNames == mapNames(MorphUniforms)

\* the names looked up for a map
NamesOf(uniforms) ==
  CASE uniforms = CommonUniforms -> CommonNames
    [] uniforms = BalatroUniforms -> BalatroNames
    [] uniforms = MorphUniforms -> MorphNames
    [] OTHER -> mapNames(uniforms)

\* Material.attachUniforms(undefined, uniforms): the entries it pushes onto
\* uniformInstances, getUniformLocation returning null for the names in
\* `unresolved`
attachAll(uniforms, unresolved) ==
  LET names == NamesOf(uniforms)
  IN [i \in 1..Len(names) |->
        [name |-> names[i],
         location |-> IF names[i] \in unresolved THEN Null ELSE names[i]]]

\* the names under which the leaves of a uniform map are looked up
LeafNames(uniforms) ==
  LET names == NamesOf(uniforms) IN {names[i] : i \in 1..Len(names)}

RECURSIVE DeclarationThrows(_)
\* Uniform.getDeclaration: `this.value[0].getDeclaration` of an empty array
\* is a TypeError
DeclarationThrows(uniform) ==
  IF uniform.type = "array"
    THEN Len(uniform.value) = 0 \/ DeclarationThrows(uniform.value[1])
    ELSE IF uniform.type = "struct"
      THEN \E i \in 1..Len(uniform.value) : DeclarationThrows(uniform.value[i][2])
      ELSE FALSE

ShaderTypes == {"vertex", "fragment"}

\* a uniform constructed with excludeFrom
Excluded(uniform, type) ==
  IF uniform.type \in {"array", "struct"}
    THEN [type |-> uniform.type, value |-> uniform.value, excludeFrom |-> type]
    ELSE [type |-> uniform.type, excludeFrom |-> type]

\* uniform.excludeFrom
ExcludeFrom(uniform) ==
  IF "excludeFrom" \in DOMAIN uniform THEN uniform.excludeFrom ELSE "undefined"

\* `[length]` after the name of an array's declaration
Brackets(length) ==
  IF length > 0 THEN <<"[", ToString(length), "]">> ELSE << >>

\* the type name of a struct's declaration: `name` without "u_", its first
\* letter in upper case; kept as a name derived from `name`
StructName(name) == "T_" \o name

\* declaration.replace(/^uniform/, '')
StripUniform(text) ==
  IF text # << >> /\ Head(text) = "uniform" THEN Tail(text) ELSE text

RECURSIVE getDeclaration_ignoresExcludeFrom(_, _, _, _)
\* getDeclaration without the test of excludeFrom
getDeclaration_ignoresExcludeFrom(uniform, name, type, length) ==
  IF uniform.type = "array"
    THEN getDeclaration_ignoresExcludeFrom(uniform.value[1], name, type,
                                           Len(uniform.value))
         \o <<"\n", "const", "int", name \o "_length", "=",
              ToString(Len(uniform.value)), ";">>
    ELSE IF uniform.type = "struct"
      THEN <<"uniform", "struct", StructName(name), "{", "\n">>
           \o Concat([i \in 1..Len(uniform.value) |->
                        StripUniform(getDeclaration_ignoresExcludeFrom(
                                       uniform.value[i][2], uniform.value[i][1],
                                       type, 0))])
           \o <<"\n", "}", name>> \o Brackets(length) \o <<";">>
      ELSE <<"uniform", uniform.type, name>> \o Brackets(length) \o <<";">>

RECURSIVE getDeclaration(_, _, _, _)
\* uniform.getDeclaration(name, type, length): the string it returns, as the
\* sequence of its words and punctuation marks; << >> is the empty string
getDeclaration(uniform, name, type, length) ==
  IF ExcludeFrom(uniform) = type
    THEN << >>
    ELSE IF uniform.type = "array"
      THEN getDeclaration(uniform.value[1], name, type, Len(uniform.value))
           \o <<"\n", "const", "int", name \o "_length", "=",
                ToString(Len(uniform.value)), ";">>
      ELSE IF uniform.type = "struct"
        THEN <<"uniform", "struct", StructName(name), "{", "\n">>
             \o Concat([i \in 1..Len(uniform.value) |->
                          StripUniform(getDeclaration(uniform.value[i][2],
                                                      uniform.value[i][1],
                                                      type, 0))])
             \o <<"\n", "}", name>> \o Brackets(length) \o <<";">>
        ELSE <<"uniform", uniform.type, name>> \o Brackets(length) \o <<";">>

RECURSIVE GetDeclarationThrows(_, _)
\* uniform.getDeclaration(name, type) ends in a TypeError: it comes to
\* `this.value[0].getDeclaration` of an empty array
GetDeclarationThrows(uniform, type) ==
  IF ExcludeFrom(uniform) = type
    THEN FALSE
    ELSE IF uniform.type = "array"
      THEN Len(uniform.value) = 0 \/ GetDeclarationThrows(uniform.value[1], type)
      ELSE IF uniform.type = "struct"
        THEN \E i \in 1..Len(uniform.value) :
               GetDeclarationThrows(uniform.value[i][2], type)
        ELSE FALSE

\* a Material constructor that rethrows a failed compilation or link
MaterialThrows_onFailure(uniforms, compiles, links) ==
  \/ \E i \in 1..Len(uniforms) : DeclarationThrows(uniforms[i][2])
  \/ compiles # ShaderTypes
  \/ ~links

\* does `new Material` throw: only while the declarations are generated
MaterialThrows(uniforms, compiles, links) ==
  \E i \in 1..Len(uniforms) : DeclarationThrows(uniforms[i][2])

\* the console.error calls of a Material constructor that returns: one per
\* shader that fails to compile and one if the program fails to link
MaterialErrors(compiles, links) ==
  Cardinality(ShaderTypes \ compiles) + (IF links THEN 0 ELSE 1)

\* no Material yet
NoMaterial ==
  [program |-> 0, attachedShaders |-> 0, linkAttempted |-> FALSE,
   uniformInstances |-> << >>]

\* new Material(context, vertex, fragment, uniforms, commonUniforms) when it
\* returns; programs are numbered in the order of createProgram
NewMaterial(previous, uniforms, commonUniforms, unresolved) ==
  [program |-> previous.program + 1,
   attachedShaders |-> 2,
   linkAttempted |-> TRUE,
   uniformInstances |-> attachAll(commonUniforms, unresolved)
                          \o attachAll(uniforms, unresolved)]


\* ---------------------------------------------------------- colours, Mesh

\* colours are the sequences of the hexadecimal digits after the '#'
Black == <<0, 0, 0, 0, 0, 0>>
DefaultColor1 == <<13, 14, 4, 4, 3, 11>>
Colors == {Black}

\* parseInt(hexStr.slice(i, i + 2), 16), i counted from 1
ParseByte(hexStr, i) == hexStr[i] * HexBase + hexStr[i + 1]

\* hexToVec4 with the alpha of a six-digit colour left at 0
hexToVec4_alphaZero(hexStr) ==
  IF Len(hexStr) = 6
    THEN <<ParseByte(hexStr, 1), ParseByte(hexStr, 3), ParseByte(hexStr, 5), 0>>
    ELSE IF Len(hexStr) = 8
      THEN <<ParseByte(hexStr, 1), ParseByte(hexStr, 3), ParseByte(hexStr, 5),
             ParseByte(hexStr, 7)>>
      ELSE <<0, 0, 0, 0>>

\* hexToVec4(hex): [r, g, b, a], each in units of 1/ColorMax
hexToVec4(hexStr) ==
  IF Len(hexStr) = 6
    THEN <<ParseByte(hexStr, 1), ParseByte(hexStr, 3), ParseByte(hexStr, 5),
           ColorMax>>
    ELSE IF Len(hexStr) = 8
      THEN <<ParseByte(hexStr, 1), ParseByte(hexStr, 3), ParseByte(hexStr, 5),
             ParseByte(hexStr, 7)>>
      ELSE <<0, 0, 0, ColorMax>>

\* ------------------------------------------- MorphGradient's colour strings

\* A colour string is "#" followed by characters (`hex`, its characters as
\* digits, NonHex for one that is no hexadecimal digit), a string without a
\* leading "#" (`word`, "red" or "DE443B"), or the name of a CSS variable
\* (`var`) with the value the canvas's computed style has for it, << >> when
\* it has none.
Hex(digits) == [form |-> "hex", digits |-> digits, value |-> << >>]
Word == [form |-> "word", digits |-> << >>, value |-> << >>]
CssVar(value) == [form |-> "var", digits |-> << >>, value |-> value]

\* defaultBaseColor and defaultWaveColors
DefaultBaseColor == Hex(<<10, 9, 6, 0, 14, 14>>)
DefaultWaveColors ==
  << Hex(<<15, 15, 3, 3, 3, 13>>), Hex(<<9, 0, 14, 0, 15, 15>>),
     Hex(<<15, 15, 12, 11, 5, 7>>) >>

\* parseColor(color): << >> for null, otherwise the string in a tuple
parseColor(color) ==
  IF color.form = "var" THEN color.value ELSE <<color>>

\* hexChar + hexChar for every character of a shorthand colour
Doubled(digits) ==
  [i \in 1..(2 * Len(digits)) |-> digits[(i + 1) \div 2]]

\* processHexColor(hex): << >> for null, otherwise the characters that follow
\* "0x" in the string it returns, in a tuple
processHexColor(hex) ==
  IF hex.form # "hex"
    THEN << >>
    ELSE IF Len(hex.digits) = 3
      THEN <<Doubled(hex.digits)>>
      ELSE <<hex.digits>>

RECURSIVE LeadingDigits(_)
\* the hexadecimal digits parseInt(str, 16) reads: those before the first
\* character that is none
LeadingDigits(chars) ==
  IF Len(chars) = 0 \/ Head(chars) = NonHex
    THEN << >>
    ELSE <<Head(chars)>> \o LeadingDigits(Tail(chars))

\* parseInt("0x" + chars, 16): the number as its hexadecimal digits, NaN when
\* there is no digit to read
ParseInt(chars) ==
  LET read == LeadingDigits(chars)
  IN [nan |-> Len(read) = 0, digits |-> read]

\* (hexCode >> shift) & 255 for shift = 8 * byte: ToInt32 keeps the low 32
\* bits, the mask the two digits at that place; NaN is converted to 0
ByteOf(hexCode, byte) ==
  LET n == Len(hexCode.digits)
      low == n - 2 * byte
      DigitAt(i) == IF i >= 1 THEN hexCode.digits[i] ELSE 0
  IN IF hexCode.nan THEN 0 ELSE DigitAt(low - 1) * HexBase + DigitAt(low)

\* normalizeColor(hexCode): [r, g, b] in units of 1/ColorMax
normalizeColor(hexCode) ==
  <<ByteOf(hexCode, 2), ByteOf(hexCode, 1), ByteOf(hexCode, 0)>>

\* the default wave colour `index % defaultWaveColors.length`, index from 0
DefaultWave(index) == DefaultWaveColors[(index % Len(DefaultWaveColors)) + 1]

\* initGradientColors(): the sectionColors it leaves
initGradientColors(optionBase, optionWaves) ==
  LET baseColorSource ==
        IF optionBase # << >> THEN optionBase[1] ELSE DefaultBaseColor
      waveColorSources ==
        IF optionWaves # << >> /\ Len(optionWaves[1]) > 0
          THEN optionWaves[1] ELSE DefaultWaveColors
      parsedColor == parseColor(baseColorSource)
      hexColor == IF parsedColor # << >>
                    THEN processHexColor(parsedColor[1])
                    ELSE processHexColor(DefaultBaseColor)
      processedBaseColor ==
        IF hexColor # << >>
          THEN <<normalizeColor(ParseInt(hexColor[1]))>> ELSE << >>
      WaveHex(i) ==
        LET parsed == parseColor(waveColorSources[i])
        IN processHexColor(IF parsed = << >> THEN DefaultWave(i - 1)
                                             ELSE parsed[1])
      processedWaveColors ==
        Concat([i \in 1..Len(waveColorSources) |->
                  IF WaveHex(i) = << >>
                    THEN << >>
                    ELSE <<normalizeColor(ParseInt(WaveHex(i)[1]))>>])
      combined == processedBaseColor \o processedWaveColors
  IN IF Len(combined) < 2
       THEN Append(combined,
                   normalizeColor(ParseInt(processHexColor(DefaultWave(0))[1])))
       ELSE combined

\* the uniform set MorphGradient.initMaterial creates for `layers` wave
\* layers, one per section colour after the first
MorphUniformsFor(layers) ==
  IF layers = Len(DefaultWaveColors)
    THEN MorphUniforms
    ELSE [MorphUniforms EXCEPT ![8] =
            <<"u_waveLayers", ArrayOf([i \in 1..layers |-> WaveLayer])>>]

\* toggleColor(index): `activeColors[index] = activeColors[index] === 0 ? 1 : 0`;
\* an assignment past the end of the array lengthens it and leaves holes
toggleColor(colors, index) ==
  LET old == IF index < Len(colors) THEN colors[index + 1] ELSE << >>
      new == IF old = <<0>> THEN <<1>> ELSE <<0>>
  IN IF index < Len(colors)
       THEN [colors EXCEPT ![index + 1] = new]
       ELSE colors \o [i \in 1..(index - Len(colors)) |-> << >>] \o <<new>>

\* the section colours of an effect constructed without colours
DefaultSectionColors == initGradientColors(<< >>, << >>)

\* the sectionColors init() leaves for the options
SectionColorsFor(optionBase, optionWaves) ==
  IF optionBase = << >> /\ optionWaves = << >>
    THEN DefaultSectionColors
    ELSE initGradientColors(optionBase, optionWaves)

\* the uniform set of the effect's material; MorphGradient's depends on its
\* section colours
EffectUniforms(k, colors) ==
  IF k = "balatro" THEN BalatroUniforms ELSE MorphUniformsFor(Len(colors) - 1)

\* no draw yet
NoDraw ==
  [issued |-> FALSE, mode |-> "none", count |-> 0, u_color1 |-> << >>,
   u_time |-> << >>, u_noiseFreq |-> << >>, lineWidth |-> 0, calls |-> << >>]

\* UniformInstance.update(): the value handed to the context for the uniform
\* `name`, << >> if no binding of the material has a location for it
Pushed(m, name, value) ==
  IF \E i \in DOMAIN m.uniformInstances :
       /\ m.uniformInstances[i].name = name
       /\ m.uniformInstances[i].location # Null
    THEN value ELSE << >>

\* n consecutive calls of one method
Run(call, n) == [call |-> call, n |-> n]

\* Mesh.draw(): the calls it makes in their order, as runs
DrawCalls(g, m, wire) ==
  << Run("useProgram", 1),
     Run("update", Len(m.uniformInstances)),
     Run("use", Cardinality(AttributeNames)) >>
  \o (IF g.index.defined /\ wire THEN << Run("lineWidth", 1) >> ELSE << >>)
  \o (IF g.index.defined THEN << Run("drawElements", 1) >> ELSE << >>)

\* Mesh.draw() of a mesh that ignores its wireframe field
MeshDraw_alwaysTriangles(g, m, wire, values) ==
  [issued |-> g.index.defined,
   mode |-> IF g.index.defined THEN "TRIANGLES" ELSE "none",
   count |-> IF g.index.defined THEN g.index.len ELSE 0,
   u_color1 |-> Pushed(m, "u_color1", values.u_color1),
   u_time |-> Pushed(m, "u_time", values.u_time),
   u_noiseFreq |-> Pushed(m, "u_global.noiseFreq", values.u_noiseFreq),
   lineWidth |-> 0,
   calls |-> DrawCalls(g, m, FALSE)]

\* Mesh.draw(): the uniform values pushed through their bindings, `values`
\* being the values the uniforms hold when draw() is called, and the
\* drawElements call, issued when the index attribute has a values array;
\* lineWidth in tenths, 0 if it is not set
MeshDraw(g, m, wire, values) ==
  [issued |-> g.index.defined,
   mode |-> IF g.index.defined
              THEN (IF wire THEN "LINES" ELSE "TRIANGLES")
              ELSE "none",
   count |-> IF g.index.defined THEN g.index.len ELSE 0,
   u_color1 |-> Pushed(m, "u_color1", values.u_color1),
   u_time |-> Pushed(m, "u_time", values.u_time),
   u_noiseFreq |-> Pushed(m, "u_global.noiseFreq", values.u_noiseFreq),
   lineWidth |-> IF g.index.defined /\ wire THEN LineWidth ELSE 0,
   calls |-> DrawCalls(g, m, wire)]

\* ------------------------------------------------------------- HikariGL

RECURSIVE GCD(_, _)
GCD(a, b) == IF b = 0 THEN a ELSE GCD(b, a % b)

\* the quotient a / b of two positive integers, as a reduced fraction
Ratio(a, b) == <<a \div GCD(a, b), b \div GCD(a, b)>>

\* no HikariGL has been constructed; sizes are <<>> until they are assigned,
\* lastSetSize holds the argument list of the latest setSize call
NoHikariGL ==
  [constructed |-> FALSE, commonUniforms |-> FALSE, size |-> << >>,
   canvas |-> << >>, viewport |-> << >>, resolution |-> << >>,
   aspectRatio |-> << >>, lastSetSize |-> << >>]

\* setSize(width = 640, height = 480): the values of its two parameters for
\* a list of arguments
SizeArguments(args) ==
  <<IF Len(args) >= 1 THEN args[1] ELSE DefaultWidth,
    IF Len(args) >= 2 THEN args[2] ELSE DefaultHeight>>

\* setSize reads this.commonUniforms.resolution: a TypeError while the field
\* is not assigned yet
SetSizeThrows(h) == ~h.commonUniforms

\* HikariGL.setSize that leaves the aspectRatio uniform as it is
HikariSetSize_staleAspect(h, args) ==
  LET wh == SizeArguments(args)
      sized == [h EXCEPT !.size = wh, !.canvas = wh,
                         !.viewport = <<0, 0, wh[1], wh[2]>>,
                         !.lastSetSize = <<args>>]
  IN IF SetSizeThrows(h)
       THEN sized
       ELSE [sized EXCEPT !.resolution = wh]

\* HikariGL.setSize(...args): width, height, canvas and viewport are written
\* before the uniforms are read
HikariSetSize(h, args) ==
  LET wh == SizeArguments(args)
      sized == [h EXCEPT !.size = wh, !.canvas = wh,
                         !.viewport = <<0, 0, wh[1], wh[2]>>,
                         !.lastSetSize = <<args>>]
  IN IF SetSizeThrows(h)
       THEN sized
       ELSE [sized EXCEPT !.resolution = wh,
                          !.aspectRatio = Ratio(wh[1], wh[2])]

\* constructor: `if (width && height) this.setSize(width, height)`
ConstructorSetsSize(args) == Len(args) = 2 /\ args[1] # 0 /\ args[2] # 0

\* new HikariGL({canvas, width, height}) for the list <<width, height>> of the
\* supplied sizes: setSize runs before commonUniforms is assigned, and a
\* constructor that throws leaves no instance
NewHikariGL(args) ==
  IF ConstructorSetsSize(args)
    THEN LET sized == HikariSetSize(NoHikariGL, args)
         IN IF SetSizeThrows(NoHikariGL)
              THEN sized
              ELSE [sized EXCEPT !.constructed = TRUE, !.commonUniforms = TRUE,
                                 !.resolution = <<1, 1>>,
                                 !.aspectRatio = <<1, 1>>]
    ELSE [NoHikariGL EXCEPT !.constructed = TRUE, !.commonUniforms = TRUE,
                            !.resolution = <<1, 1>>, !.aspectRatio = <<1, 1>>]

\* ------------------------------------------------------- the projection

\* numbers are fractions <<numerator, denominator>> in lowest terms with a
\* positive denominator; NaN is the result of arithmetic on undefined
NaN == <<0, 0>>
Zero == <<0, 1>>
One == <<1, 1>>
Half == <<1, 2>>

Abs(n) == IF n < 0 THEN -n ELSE n

Fraction(n, d) ==
  IF d = 0
    THEN NaN
    ELSE LET g == GCD(Abs(n), Abs(d))
             sign == IF d < 0 THEN -1 ELSE 1
         IN <<(sign * n) \div g, (sign * d) \div g>>

Times(a, b) ==
  IF a = NaN \/ b = NaN THEN NaN ELSE Fraction(a[1] * b[1], a[2] * b[2])

Plus(a, b) ==
  IF a = NaN \/ b = NaN
    THEN NaN
    ELSE Fraction(a[1] * b[2] + b[1] * a[2], a[2] * b[2])

Minus(a, b) == Plus(a, Times(<<-1, 1>>, b))

\* Math.max(a, b)
MathMax(a, b) ==
  IF a = NaN \/ b = NaN
    THEN NaN
    ELSE IF a[1] * b[2] >= b[1] * a[2] THEN a ELSE b

\* Math.cos and Math.sin of a multiple of 90 degrees, to fifteen decimals
Cos(degrees) ==
  LET turn == degrees % 360
  IN <<IF turn = 0 THEN 1 ELSE IF turn = 180 THEN -1 ELSE 0, 1>>

Sin(degrees) ==
  LET turn == degrees % 360
  IN <<IF turn = 90 THEN 1 ELSE IF turn = 270 THEN -1 ELSE 0, 1>>

\* the projection matrix the HikariGL constructor creates: I4
IdentityMatrix == <<One, Zero, Zero, One>>

\* HikariGL.setOrthographicCamera(): elements 0, 1, 4 and 5 of the matrix it
\* assigns, [2 / width, 0, 0, 2 / height]; width and height are undefined
\* until setSize has run
setOrthographicCamera(size) ==
  IF size = << >>
    THEN <<NaN, Zero, Zero, NaN>>
    ELSE <<Fraction(2, size[1]), Zero, Zero, Fraction(2, size[2])>>

\* `const safeZoom = zoom` without the floor
SafeZoom_unclamped(zoom) == zoom

\* `const safeZoom = Math.max(0.5, this.conf.zoom)`
SafeZoom(zoom) == MathMax(Half, zoom)

\* MorphGradient.applyTransformations(): the matrix it assigns for the
\* HikariGL's size and conf.zoom, conf.rotation
applyTransformations(size, zoom, rotation) ==
  LET matrix == setOrthographicCamera(size)
      zoomed == IF zoom # One
                  THEN <<Times(matrix[1], SafeZoom(zoom)), matrix[2], matrix[3],
                         Times(matrix[4], SafeZoom(zoom))>>
                  ELSE matrix
      cosTheta == Cos(rotation)
      sinTheta == Sin(rotation)
      m0 == zoomed[1]
      m1 == zoomed[2]
      m4 == zoomed[3]
      m5 == zoomed[4]
  IN IF rotation # 0
       THEN <<Minus(Times(m0, cosTheta), Times(m1, sinTheta)),
              Plus(Times(m0, sinTheta), Times(m1, cosTheta)),
              Minus(Times(m4, cosTheta), Times(m5, sinTheta)),
              Plus(Times(m4, sinTheta), Times(m5, cosTheta))>>
       ELSE zoomed

\* applyTransformations() of the effect: BalatroGradient's only sets the
\* orthographic camera
Projection(size) ==
  IF kind = "morph"
    THEN applyTransformations(size, conf_zoom, conf_rotation)
    ELSE setOrthographicCamera(size)

\* ------------------------------------------------- the effects' geometry

\* conf.density as the field initialiser sets it, in units of 1/DensityScale
DefaultDensity(k) ==
  IF k = "balatro" THEN <<1, 1>> ELSE <<6, 16>>

\* constructor: `if (options.density !== undefined) this.conf.density = options.density`
ConstructedDensity ==
  IF optDensity # << >> THEN optDensity ELSE DefaultDensity(kind)

\* constructor: MorphGradient copies options.wireframe into conf.wireframe,
\* BalatroGradient leaves conf.wireframe at false
ConstructedWireframe ==
  IF kind = "morph" THEN optWireframe ELSE FALSE

\* setDensity: the segment counts it computes from width, height and density
DensitySegments(w, density) ==
  <<SegCount(w, density[1]), SegCount(Height, density[2])>>

\* resize: the segment counts it hands to setTopology
ResizeSegments(w, density) ==
  IF kind = "balatro" THEN <<1, 1>> ELSE DensitySegments(w, density)

\* resize: `setTopology(xSegCount, ySegCount); setSize(width, height)`
ResizedGeometry(g, w, density) ==
  LET seg == ResizeSegments(w, density)
  IN setSize(setTopology(g, seg[1], seg[2]), w, Height, XZ)

\* initMesh: the segment counts it hands to createPlaneGeometry, whose
\* constructor hands them to setTopology
InitialSegments ==
  IF kind = "balatro" THEN <<1, 1>> ELSE <<0, 0>>

\* initMesh: the geometry createPlaneGeometry returns
InitialGeometry(w) ==
  IF kind = "balatro"
    THEN NewPlaneGeometry(w, Height, InitialSegments[1], InitialSegments[2], XY)
    ELSE NewPlaneGeometry(w, Height, InitialSegments[1], InitialSegments[2], XZ)

\* initMaterial that creates u_color1 from the default colour
InitialColor1_fromDefault(hexStr) ==
  IF kind = "balatro" THEN hexToVec4(DefaultColor1) ELSE << >>

\* initMaterial: the value u_color1 is created with (BalatroGradient only)
InitialColor1(hexStr) ==
  IF kind = "balatro" THEN hexToVec4(hexStr) ELSE << >>

\* ------------------------------------------------------------ initial state

\* Uniform.getDeclaration has not been called
NoDeclaration == [name |-> "", stage |-> "", text |-> << >>, threw |-> FALSE]

\* the page before the wrapper has mounted the effect
Unmounted ==
  /\ constructed = FALSE
  /\ canvasElement = FALSE
  /\ hikari = FALSE
  /\ mesh = FALSE
  /\ maxFrameTimeStep = DefaultMaxFrameTimeStep
  /\ mouseInteraction = TRUE
  /\ conf_playing = TRUE
  /\ isScrolling = FALSE
  /\ isIntersecting = FALSE
  /\ scrollingTimeout = FALSE
  /\ listeners = {}
  /\ mousePosition = Center
  /\ t = IF kind = "morph" THEN MorphT0 * Scale ELSE 0
  /\ last = 0
  /\ u_time = <<0, 1>>
  /\ rafQueue = <<>>
  /\ frameBatch = <<>>
  /\ clock = 0
  /\ hidden = FALSE
  /\ onInitCalls = 0
  /\ disconnected = FALSE
  /\ pausedNoPlay = FALSE
  /\ lastOp = "none"
  /\ timers = << >>
  /\ sinceScroll = 0
  /\ sectionColors = << >>
  /\ freq = <<FreqX, FreqY>>
  /\ u_noiseFreq = << >>
  /\ declaration = NoDeclaration
  /\ conf_zoom = One
  /\ conf_rotation = 0
  /\ projectionMatrix = << >>
  /\ topologyCalls = << >>
  /\ activeColors = <<<<1>>, <<1>>, <<1>>, <<1>>>>

\* the effect is constructed without baseColor and waveColors
DefaultPalette ==
  /\ optionBaseColor = << >>
  /\ optionWaveColors = << >>

\* no graphics object exists yet
NoGraphics ==
  /\ width = innerWidth
  /\ conf_density = << >>
  /\ color1 = DefaultColor1
  /\ u_color1 = << >>
  /\ material = NoMaterial
  /\ geometry = NoGeometry
  /\ lastDraw = NoDraw
  /\ consoleErrors = 0
  /\ conf_wireframe = FALSE
  /\ wireframe = FALSE
  /\ hikariGL = NoHikariGL

\* the cell setTopology's loop is followed through: none
NoQuad == [x |-> 0, y |-> 0, stored |-> << >>]

\* a driver that compiles and links the effect's shaders and resolves every
\* uniform of the effect
WorkingDriver ==
  /\ glCompiles = ShaderTypes
  /\ glLinks = TRUE
  /\ glUnresolved = {}
  /\ uniformMap = << >>
  /\ quad = NoQuad
  /\ optWireframe = FALSE

Init ==
  /\ kind \in Kinds
  /\ optMaxFrameTimeStep \in
       (IF kind = "balatro" THEN FrameTimeSteps ELSE {DefaultMaxFrameTimeStep})
  /\ optMouseInteraction \in (IF kind = "balatro" THEN BOOLEAN ELSE {FALSE})
  /\ selectorMatches \in BOOLEAN
  /\ Unmounted
  /\ DefaultPalette
  /\ innerWidth = WideViewport
  /\ optDensity = << >>
  /\ WorkingDriver
  /\ NoGraphics

\* ------------------------------------------------------------------ actions

\* The wrapper component's mount effect: `new Effect({selector, ...options})`
\* (constructor, initGradient and connect run synchronously), then
\* `onInit(gradient)`.
Mount ==
  /\ ~constructed
  /\ Idle
  /\ constructed' = TRUE
  /\ maxFrameTimeStep' =
       IF kind = "balatro" THEN optMaxFrameTimeStep ELSE maxFrameTimeStep
  /\ mouseInteraction' =
       IF kind = "balatro" THEN optMouseInteraction ELSE mouseInteraction
  /\ canvasElement' = selectorMatches
  /\ IF selectorMatches
       THEN /\ hikari' = TRUE
            /\ rafQueue' = PlayRequest(Append(rafQueue, "deferredInit"))
            /\ listeners' = listeners \cup ConnectListeners(mouseInteraction')
            /\ isIntersecting' = TRUE
            /\ conf_playing' = TRUE
            /\ pausedNoPlay' = FALSE
       ELSE UNCHANGED <<hikari, rafQueue, listeners, isIntersecting,
                        conf_playing, pausedNoPlay>>
  /\ onInitCalls' = onInitCalls + 1
  /\ lastOp' = "mount"
  /\ width' = innerWidth
  /\ conf_density' = ConstructedDensity
  /\ conf_wireframe' = ConstructedWireframe
  /\ hikariGL' = IF selectorMatches THEN NewHikariGL(<< >>) ELSE hikariGL
  /\ projectionMatrix' =
       IF selectorMatches THEN IdentityMatrix ELSE projectionMatrix
  /\ UNCHANGED <<options, mesh, isScrolling, scrollingTimeout, mousePosition,
                 t, last, u_time, frameBatch, clock, hidden, disconnected,
                 environment, color1, u_color1, material, geometry, topologyCalls, lastDraw,
                 consoleErrors, quad, wireframe, palette, noise, debounce,
                 declaration, conf_zoom, conf_rotation>>

\* the values the effect's uniforms hold, u_time holding `time`
UniformValues(time) ==
  [u_color1 |-> u_color1, u_time |-> time, u_noiseFreq |-> u_noiseFreq]

\* animate(timestamp) with render() called before u_time is assigned
animate_rendersBeforeUpdate(timestamp) ==
  IF ~hikari
    THEN /\ lastOp' = "animate_nocontext"
         /\ UNCHANGED <<t, last, u_time, rafQueue, lastDraw>>
    ELSE IF shouldSkipFrame(timestamp)
      THEN /\ lastOp' = "animate_skip"
           /\ UNCHANGED <<t, last, u_time, rafQueue, lastDraw>>
      ELSE LET now == timestamp[1]
               delta == now - SeedLast(now)
           IN /\ t' = t + TimeStep(delta)
              /\ last' = now
              /\ IF kind = "morph" /\ ~mesh
                   THEN \* this.mesh is undefined: TypeError before render()
                        /\ lastOp' = "animate_throw"
                        /\ UNCHANGED <<u_time, rafQueue, lastDraw>>
                   ELSE /\ u_time' = IF mesh THEN TimeUniform(t') ELSE u_time
                        /\ lastDraw' = IF mesh
                                         THEN MeshDraw(geometry, material,
                                                       wireframe,
                                                       UniformValues(u_time))
                                         ELSE lastDraw
                        /\ rafQueue' = Reschedule(rafQueue)
                        /\ lastOp' = "animate_render"

\* The body of animate(timestamp): the time step, the assignment to u_time,
\* then hikari.render() and the request for the next frame.
animate(timestamp) ==
  IF ~hikari
    THEN /\ lastOp' = "animate_nocontext"
         /\ UNCHANGED <<t, last, u_time, rafQueue, lastDraw>>
    ELSE IF shouldSkipFrame(timestamp)
      THEN /\ lastOp' = "animate_skip"
           /\ UNCHANGED <<t, last, u_time, rafQueue, lastDraw>>
      ELSE LET now == timestamp[1]
               delta == now - SeedLast(now)
           IN /\ t' = t + TimeStep(delta)
              /\ last' = now
              /\ IF kind = "morph" /\ ~mesh
                   THEN \* this.mesh is undefined: TypeError before render()
                        /\ lastOp' = "animate_throw"
                        /\ UNCHANGED <<u_time, rafQueue, lastDraw>>
                   ELSE /\ u_time' = IF mesh THEN TimeUniform(t') ELSE u_time
                        /\ lastDraw' = IF mesh
                                         THEN MeshDraw(geometry, material,
                                                       wireframe,
                                                       UniformValues(u_time'))
                                         ELSE lastDraw
                        /\ rafQueue' = Reschedule(rafQueue)
                        /\ lastOp' = "animate_render"

\* init() from the creation of the Material on: initMesh(), resize(), the
\* request for the first animate and the resize listener
initMesh ==
  /\ mesh' = TRUE
  /\ material' = NewMaterial(material, EffectUniforms(kind, sectionColors'),
                             CommonUniforms, glUnresolved)
  /\ consoleErrors' = consoleErrors + MaterialErrors(glCompiles, glLinks)
  /\ width' = innerWidth
  /\ geometry' = ResizedGeometry(InitialGeometry(width), width', conf_density)
  /\ topologyCalls' = <<InitialSegments, ResizeSegments(width', conf_density)>>
  /\ hikariGL' = HikariSetSize(hikariGL, <<width', Height>>)
  /\ projectionMatrix' = Projection(hikariGL'.size)
  /\ wireframe' = conf_wireframe
  /\ rafQueue' = Append(rafQueue, "animate")
  /\ listeners' = InitListeners(listeners)
  /\ lastOp' = "init"

\* The callback connect() hands to requestAnimationFrame: it runs init():
\* the colours (MorphGradient), the uniforms, then the mesh.
deferredInit ==
  IF ~canvasElement
    THEN /\ lastOp' = "init_skip"
         /\ UNCHANGED <<mesh, u_time, rafQueue, listeners, width, u_color1,
                        material, geometry, topologyCalls, consoleErrors, wireframe, hikariGL,
                        sectionColors, u_noiseFreq, projectionMatrix>>
    ELSE /\ sectionColors' =
              IF kind = "morph"
                THEN SectionColorsFor(optionBaseColor, optionWaveColors)
                ELSE sectionColors
         /\ u_time' = <<0, 1>>
         /\ u_color1' = InitialColor1(color1)
         /\ u_noiseFreq' = IF kind = "morph" THEN freq ELSE u_noiseFreq
         /\ IF MaterialThrows(EffectUniforms(kind, sectionColors'), glCompiles,
                              glLinks)
              THEN \* `new Material` throws in initMaterial: init() ends there
                   /\ lastOp' = "init_throw"
                   /\ UNCHANGED <<mesh, rafQueue, listeners, width, material,
                                  geometry, topologyCalls, consoleErrors, wireframe, hikariGL,
                                  projectionMatrix>>
              ELSE initMesh

\* The browser delivers an animation frame, one of `intervals` after the
\* previous one: the callbacks requested so far form the batch that now runs.
DeliverFrame(intervals) ==
  /\ Idle
  /\ \E d \in intervals : clock' = Min(clock + d, MaxTime)
  /\ frameBatch' = rafQueue
  /\ rafQueue' = <<>>
  /\ lastOp' = "frame"
  /\ UNCHANGED <<environment, graphics, quad, render, palette, noise,
                 debounce, declaration, camera>>
  /\ UNCHANGED <<options, constructed, canvasElement, hikari, mesh,
                 maxFrameTimeStep, mouseInteraction, conf_playing, isScrolling,
                 isIntersecting, scrollingTimeout, listeners, mousePosition,
                 t, last, u_time, hidden, onInitCalls, disconnected,
                 pausedNoPlay>>

\* A frame on a display that may also deliver a frame late.
Frame == DeliverFrame(Deltas)

\* A frame on a display that delivers every frame 16 ms after the previous one.
SteadyFrame == DeliverFrame({DeltaFast})

\* The next callback of the frame's batch runs with the frame's timestamp.
RunAnimate ==
  /\ frameBatch # <<>>
  /\ Head(frameBatch) = "animate"
  /\ frameBatch' = Tail(frameBatch)
  /\ animate(<<clock>>)
  /\ UNCHANGED <<environment, width, conf_density, color1, u_color1, material,
                 geometry, topologyCalls, consoleErrors, quad, render, palette, noise,
                 debounce, declaration, camera>>
  /\ UNCHANGED <<options, constructed, canvasElement, hikari, mesh,
                 maxFrameTimeStep, mouseInteraction, conf_playing, isScrolling,
                 isIntersecting, scrollingTimeout, listeners, mousePosition,
                 clock, hidden, onInitCalls, disconnected, pausedNoPlay>>

RunDeferredInit ==
  /\ frameBatch # <<>>
  /\ Head(frameBatch) = "deferredInit"
  /\ frameBatch' = Tail(frameBatch)
  /\ deferredInit
  /\ UNCHANGED <<environment, conf_density, color1, lastDraw, quad,
                 conf_wireframe, optionBaseColor, optionWaveColors, freq,
                 activeColors,
                 debounce, declaration, conf_zoom, conf_rotation>>
  /\ UNCHANGED <<options, constructed, canvasElement, hikari,
                 maxFrameTimeStep, mouseInteraction, conf_playing, isScrolling,
                 isIntersecting, scrollingTimeout, mousePosition, t, last,
                 clock, hidden, onInitCalls, disconnected, pausedNoPlay>>

\* A caller invokes the public animate property without a timestamp.
CallAnimate ==
  /\ constructed
  /\ Idle
  /\ animate(Undefined)
  /\ UNCHANGED <<environment, width, conf_density, color1, u_color1, material,
                 geometry, topologyCalls, consoleErrors, quad, render, palette, noise,
                 debounce, declaration, camera>>
  /\ UNCHANGED <<options, constructed, canvasElement, hikari, mesh,
                 maxFrameTimeStep, mouseInteraction, conf_playing, isScrolling,
                 isIntersecting, scrollingTimeout, listeners, mousePosition,
                 frameBatch, clock, hidden, onInitCalls, disconnected,
                 pausedNoPlay>>

\* play()
Play ==
  /\ constructed
  /\ Idle
  /\ Len(rafQueue) < MaxQueue
  /\ rafQueue' = PlayRequest(rafQueue)
  /\ conf_playing' = TRUE
  /\ pausedNoPlay' = FALSE
  /\ lastOp' = "play"
  /\ UNCHANGED <<environment, graphics, quad, render, palette, noise,
                 debounce, declaration, camera>>
  /\ UNCHANGED <<options, constructed, canvasElement, hikari, mesh,
                 maxFrameTimeStep, mouseInteraction, isScrolling,
                 isIntersecting, scrollingTimeout, listeners, mousePosition,
                 t, last, u_time, frameBatch, clock, hidden, onInitCalls,
                 disconnected>>

\* pause()
Pause ==
  /\ constructed
  /\ Idle
  /\ conf_playing' = FALSE
  /\ pausedNoPlay' = TRUE
  /\ lastOp' = "pause"
  /\ UNCHANGED <<environment, graphics, quad, render, palette, noise,
                 debounce, declaration, camera>>
  /\ UNCHANGED <<options, constructed, canvasElement, hikari, mesh,
                 maxFrameTimeStep, mouseInteraction, isScrolling,
                 isIntersecting, scrollingTimeout, listeners, mousePosition,
                 t, last, u_time, rafQueue, frameBatch, clock, hidden,
                 onInitCalls, disconnected>>

\* clearTimeout that cancels nothing
clearTimeout_cancelsNothing(pending, handleIsPending) == pending

\* clearTimeout(this.scrollingTimeout): the pending timers that remain; the
\* handle is that of the timer set last, a handle of a timer that has fired or
\* `undefined` cancels nothing
clearTimeout(pending, handleIsPending) ==
  IF handleIsPending /\ pending # << >>
    THEN SubSeq(pending, 1, Len(pending) - 1)
    ELSE pending

\* window.setTimeout(handler, delay): the pending timers with the new one
setTimeout(pending, delay) == Append(pending, delay)

\* A scroll event reaches handleScroll.
Scroll ==
  /\ "scroll" \in listeners
  /\ Idle
  /\ timers' = setTimeout(clearTimeout(timers, scrollingTimeout),
                          scrollingRefreshDelay)
  /\ scrollingTimeout' = TRUE
  /\ sinceScroll' = 0
  /\ IF ScrollPauses
       THEN /\ isScrolling' = TRUE
            /\ conf_playing' = FALSE
            /\ pausedNoPlay' = TRUE
            /\ lastOp' = "scroll_pause"
       ELSE /\ lastOp' = "scroll"
            /\ UNCHANGED <<isScrolling, conf_playing, pausedNoPlay>>
  /\ UNCHANGED <<environment, graphics, quad, render, palette, noise,
                 declaration, camera>>
  /\ UNCHANGED <<options, constructed, canvasElement, hikari, mesh,
                 maxFrameTimeStep, mouseInteraction, isIntersecting,
                 listeners, mousePosition, t, last, u_time, rafQueue,
                 frameBatch, clock, hidden, onInitCalls, disconnected>>

\* The body of handleScrollEnd, run by the timer that is first in `timers`.
handleScrollEnd ==
  /\ timers' = Tail(timers)
  /\ scrollingTimeout' = (Len(timers) > 1)
  /\ isScrolling' = FALSE
  /\ IF isIntersecting
       THEN /\ rafQueue' = PlayRequest(rafQueue)
            /\ conf_playing' = TRUE
            /\ pausedNoPlay' = FALSE
            /\ lastOp' = "scrollEnd_play"
       ELSE /\ lastOp' = "scrollEnd"
            /\ UNCHANGED <<rafQueue, conf_playing, pausedNoPlay>>
  /\ UNCHANGED <<environment, graphics, quad, render, palette, noise,
                 sinceScroll, declaration, camera>>
  /\ UNCHANGED <<options, constructed, canvasElement, hikari, mesh,
                 maxFrameTimeStep, mouseInteraction, isIntersecting,
                 listeners, mousePosition, t, last, u_time, frameBatch,
                 clock, hidden, onInitCalls, disconnected>>

\* The scroll-settle timer fires at some time after it was set.
ScrollEnd ==
  /\ scrollingTimeout
  /\ timers # << >>
  /\ Idle
  /\ isIntersecting => Len(rafQueue) < MaxQueue
  /\ handleScrollEnd

\* disconnect()
Disconnect ==
  /\ constructed
  /\ Idle
  /\ listeners' = DisconnectListeners(listeners)
  /\ isIntersecting' = FALSE
  /\ conf_playing' = FALSE
  /\ disconnected' = TRUE
  /\ lastOp' = "disconnect"
  /\ UNCHANGED <<environment, graphics, quad, render, palette, noise,
                 debounce, declaration, camera>>
  /\ UNCHANGED <<options, constructed, canvasElement, hikari, mesh,
                 maxFrameTimeStep, mouseInteraction, isScrolling,
                 scrollingTimeout, mousePosition, t, last, u_time, rafQueue,
                 frameBatch, clock, hidden, onInitCalls, pausedNoPlay>>

\* The body of resize(): without a render context it returns, without a mesh
\* the access to this.mesh.geometry throws.
resize(via) ==
  /\ lastOp' = IF ~hikari THEN via \o "_nocontext"
               ELSE IF ~mesh THEN via \o "_throw"
               ELSE via
  /\ width' = IF hikari THEN innerWidth ELSE width
  /\ hikariGL' = IF hikari
                   THEN HikariSetSize(hikariGL, <<innerWidth, Height>>)
                   ELSE hikariGL
  /\ geometry' = IF hikari /\ mesh
                   THEN ResizedGeometry(geometry, innerWidth, conf_density)
                   ELSE geometry
  /\ topologyCalls' = IF hikari /\ mesh
                        THEN <<ResizeSegments(innerWidth, conf_density)>>
                        ELSE topologyCalls
  /\ projectionMatrix' = IF hikari THEN Projection(hikariGL'.size)
                                    ELSE projectionMatrix
  /\ wireframe' = IF hikari /\ mesh THEN conf_wireframe ELSE wireframe
  /\ UNCHANGED <<environment, conf_density, color1, u_color1, material,
                 lastDraw, consoleErrors, quad, conf_wireframe, palette, noise,
                 debounce, declaration, conf_zoom, conf_rotation>>
  /\ UNCHANGED <<options, constructed, canvasElement, hikari, mesh,
                 maxFrameTimeStep, mouseInteraction, conf_playing, isScrolling,
                 isIntersecting, scrollingTimeout, listeners, mousePosition,
                 t, last, u_time, rafQueue, frameBatch, clock, hidden,
                 onInitCalls, disconnected, pausedNoPlay>>

\* A caller invokes resize().
Resize ==
  /\ constructed
  /\ Idle
  /\ resize("resize")

\* A window resize event reaches the registered resize listener.
WindowResize ==
  /\ "resize" \in listeners
  /\ Idle
  /\ resize("windowResize")

\* setMouseInteraction(enabled) of BalatroGradient
SetMouseInteraction ==
  /\ constructed
  /\ Idle
  /\ kind = "balatro"
  /\ \E enabled \in BOOLEAN :
       IF mouseInteraction = enabled
         THEN /\ lastOp' = "setMouseInteraction_same"
              /\ UNCHANGED <<mouseInteraction, listeners, mousePosition>>
         ELSE /\ mouseInteraction' = enabled
              /\ lastOp' = "setMouseInteraction"
              /\ IF ~canvasElement
                   THEN UNCHANGED <<listeners, mousePosition>>
                   ELSE IF enabled
                     THEN /\ listeners' = listeners \cup {"mousemove"}
                          /\ UNCHANGED mousePosition
                     ELSE /\ listeners' = listeners \ {"mousemove"}
                          /\ mousePosition' = Center
  /\ UNCHANGED <<environment, graphics, quad, render, palette, noise,
                 debounce, declaration, camera>>
  /\ UNCHANGED <<options, constructed, canvasElement, hikari, mesh,
                 maxFrameTimeStep, conf_playing, isScrolling, isIntersecting,
                 scrollingTimeout, t, last, u_time, rafQueue, frameBatch,
                 clock, hidden, onInitCalls, disconnected, pausedNoPlay>>

\* A mousemove event reaches handleMouseMove.
MouseMove ==
  /\ "mousemove" \in listeners
  /\ Idle
  /\ \E p \in {Center, Corner} :
       IF ~canvasElement \/ ~mouseInteraction
         THEN /\ lastOp' = "mouseMove_ignored"
              /\ UNCHANGED mousePosition
         ELSE /\ lastOp' = "mouseMove"
              /\ mousePosition' = p
  /\ UNCHANGED <<environment, graphics, quad, render, palette, noise,
                 debounce, declaration, camera>>
  /\ UNCHANGED <<options, constructed, canvasElement, hikari, mesh,
                 maxFrameTimeStep, mouseInteraction, conf_playing, isScrolling,
                 isIntersecting, scrollingTimeout, listeners, t, last, u_time,
                 rafQueue, frameBatch, clock, hidden, onInitCalls,
                 disconnected, pausedNoPlay>>

\* The page is hidden or shown again (document.hidden changes).
VisibilityChange ==
  /\ Idle
  /\ hidden' = ~hidden
  /\ lastOp' = "visibility"
  /\ UNCHANGED <<environment, graphics, quad, render, palette, noise,
                 debounce, declaration, camera>>
  /\ UNCHANGED <<options, constructed, canvasElement, hikari, mesh,
                 maxFrameTimeStep, mouseInteraction, conf_playing, isScrolling,
                 isIntersecting, scrollingTimeout, listeners, mousePosition,
                 t, last, u_time, rafQueue, frameBatch, clock, onInitCalls,
                 disconnected, pausedNoPlay>>

Next ==
  \/ Mount
  \/ Frame
  \/ RunAnimate
  \/ RunDeferredInit
  \/ CallAnimate
  \/ Play
  \/ Pause
  \/ Scroll
  \/ ScrollEnd
  \/ Disconnect
  \/ Resize
  \/ WindowResize
  \/ SetMouseInteraction
  \/ MouseMove
  \/ VisibilityChange

Spec == Init /\ [][Next]_vars

\* The browser keeps delivering animation frames and running their callbacks.
\* The effect is constructed with the default options on a canvas that exists.
FairInit ==
  /\ Init
  /\ selectorMatches
  /\ optMaxFrameTimeStep = DefaultMaxFrameTimeStep
  /\ ~optMouseInteraction

FairSpec ==
  /\ FairInit
  /\ [][Next]_vars
  /\ WF_vars(Frame)
  /\ WF_vars(RunAnimate)
  /\ WF_vars(RunDeferredInit)

\* ------------------------------------------ the effect's graphics objects

\* the densities a caller hands to setDensity, in units of 1/DensityScale
Densities == {<<2, 1>>, <<0, 0>>}

\* setDensity without the `if (this.hikari)` test
SetDensity_unguarded ==
  /\ constructed
  /\ Idle
  /\ \E density \in Densities :
       /\ conf_density' = density
       /\ IF ~mesh
            THEN /\ lastOp' = "setDensity_throw"
                 /\ UNCHANGED <<geometry, topologyCalls>>
            ELSE LET seg == DensitySegments(width, density)
                 IN /\ geometry' = setTopology(geometry, seg[1], seg[2])
                    /\ topologyCalls' = <<seg>>
                    /\ lastOp' = "setDensity"
  /\ UNCHANGED <<options, loop, environment, width, color1, u_color1, material,
                 lastDraw, consoleErrors, quad, render, palette, noise,
                 debounce, declaration, camera>>

\* setDensity(density)
SetDensity ==
  /\ constructed
  /\ Idle
  /\ \E density \in Densities :
       /\ conf_density' = density
       /\ IF ~hikari
            THEN /\ lastOp' = "setDensity_nocontext"
                 /\ UNCHANGED <<geometry, topologyCalls>>
            ELSE IF ~mesh
              THEN \* this.mesh is undefined: TypeError
                   /\ lastOp' = "setDensity_throw"
                   /\ UNCHANGED <<geometry, topologyCalls>>
              ELSE LET seg == DensitySegments(width, density)
                   IN /\ geometry' = setTopology(geometry, seg[1], seg[2])
                      /\ topologyCalls' = <<seg>>
                      /\ lastOp' = "setDensity"
  /\ UNCHANGED <<options, loop, environment, width, color1, u_color1, material,
                 lastDraw, consoleErrors, quad, render, palette, noise,
                 debounce, declaration, camera>>

\* setColor1(color) of BalatroGradient
SetColor1 ==
  /\ constructed
  /\ Idle
  /\ kind = "balatro"
  /\ \E color \in Colors :
       /\ color1' = color
       /\ u_color1' = IF mesh THEN hexToVec4(color) ELSE u_color1
  /\ lastOp' = "setColor1"
  /\ UNCHANGED <<options, loop, environment, width, conf_density, material,
                 geometry, topologyCalls, lastDraw, consoleErrors, quad, render, palette, noise,
                 debounce, declaration, camera>>

\* The user makes the window narrower or wider; the resize event that follows
\* is WindowResize.
ViewportChange ==
  /\ Idle
  /\ innerWidth' \in {WideViewport, NarrowViewport} \ {innerWidth}
  /\ lastOp' = "viewportChange"
  /\ UNCHANGED <<options, loop, optDensity, glCompiles, glLinks, glUnresolved,
                 uniformMap, optWireframe, graphics, quad, render, palette, noise,
                 debounce, declaration, camera>>

\* The effect with its default loop options, on a window that is resized and
\* under a caller that changes density and colour.
EffectInit ==
  /\ kind \in Kinds
  /\ optMaxFrameTimeStep = DefaultMaxFrameTimeStep
  /\ optMouseInteraction = FALSE
  /\ selectorMatches \in BOOLEAN
  /\ Unmounted
  /\ DefaultPalette
  /\ innerWidth = WideViewport
  /\ optDensity = IF kind = "balatro" THEN << >> ELSE <<1, 1>>
  /\ WorkingDriver
  /\ NoGraphics

EffectNext ==
  \/ Mount
  \/ Frame
  \/ RunAnimate
  \/ RunDeferredInit
  \/ Play
  \/ Pause
  \/ Resize
  \/ WindowResize
  \/ SetDensity
  \/ SetColor1
  \/ ViewportChange

EffectSpec == EffectInit /\ [][EffectNext]_vars

\* ------------------------------------- a PlaneGeometry that is driven directly

\* the widths and the height handed to the constructor and to setSize
Extents == {10, 20}
Tall == 30

\* the segment counts handed to the constructor and to setTopology
SegCounts == 0..MaxSeg

\* every variable but the geometry, the latest draw and the latest operation
allButGeometry ==
  <<options, constructed, canvasElement, hikari, maxFrameTimeStep,
    mouseInteraction, conf_playing, isScrolling, isIntersecting,
    scrollingTimeout, listeners, mousePosition, t, last, u_time, rafQueue,
    frameBatch, clock, hidden, onInitCalls, disconnected, pausedNoPlay,
    environment, width, conf_density, color1, u_color1, material,
    topologyCalls, consoleErrors, quad, render, palette, noise, debounce,
    declaration, camera>>

\* hikari.createMesh(hikari.createPlaneGeometry(w, h, xSeg, ySeg, orient), material)
CreateMesh ==
  /\ ~mesh
  /\ \E w \in Extents, xSeg \in SegCounts, ySeg \in SegCounts,
        orient \in Orientations :
       geometry' = NewPlaneGeometry(w, Tall, xSeg, ySeg, orient)
  /\ mesh' = TRUE
  /\ lastOp' = "createMesh"
  /\ UNCHANGED <<allButGeometry, lastDraw>>

\* geometry.setTopology(xSegments, ySegments)
SetTopology ==
  /\ mesh
  /\ \E xSeg \in SegCounts, ySeg \in SegCounts :
       geometry' = setTopology(geometry, xSeg, ySeg)
  /\ lastOp' = "setTopology"
  /\ UNCHANGED <<allButGeometry, mesh, lastDraw>>

\* geometry.setSize(width, height, orientation)
SetSize ==
  /\ mesh
  /\ \E w \in Extents, orient \in Orientations :
       geometry' = setSize(geometry, w, Tall, orient)
  /\ lastOp' = "setSize"
  /\ UNCHANGED <<allButGeometry, mesh, lastDraw>>

\* mesh.draw()
Draw ==
  /\ mesh
  /\ lastDraw' = MeshDraw(geometry, material, wireframe, UniformValues(u_time))
  /\ lastOp' = "draw"
  /\ UNCHANGED <<allButGeometry, mesh, geometry>>

\* A render context without an effect: the caller creates one mesh.
GeometryInit ==
  /\ kind = "balatro"
  /\ optMaxFrameTimeStep = DefaultMaxFrameTimeStep
  /\ optMouseInteraction = FALSE
  /\ selectorMatches = TRUE
  /\ Unmounted
  /\ DefaultPalette
  /\ innerWidth = WideViewport
  /\ optDensity = << >>
  /\ WorkingDriver
  /\ NoGraphics

GeometryNext ==
  \/ CreateMesh
  \/ SetTopology
  \/ SetSize
  \/ Draw

GeometrySpec == GeometryInit /\ [][GeometryNext]_vars

\* ------------------------------------------- the index entries of one cell

\* the densities an effect is configured with, in units of 1/DensityScale
RequestDensities == {<<1, 1>>, <<6, 16>>, <<50, 50>>}

\* the first and the last column of the grid
ProbeColumns(g) == {0, g.xSegCount - 1}

\* setTopology's loop stores the six index entries of cell (x, y)
WriteQuad ==
  /\ quad = NoQuad
  /\ \E x \in ProbeColumns(geometry), y \in 0..(geometry.ySegCount - 1) :
       quad' = [x |-> x, y |-> y,
                stored |-> QuadIndices(geometry.xSegCount, x, y)]
  /\ lastOp' = "writeQuad"
  /\ UNCHANGED <<options, loop, environment, graphics, render, palette,
                 noise, debounce, declaration, camera>>

\* A geometry whose segment counts are derived from width, height and density
\* as resize() and setDensity() derive them.
TopologyInit ==
  /\ kind = "morph"
  /\ optMaxFrameTimeStep = DefaultMaxFrameTimeStep
  /\ optMouseInteraction = FALSE
  /\ selectorMatches = TRUE
  /\ Unmounted
  /\ DefaultPalette
  /\ innerWidth \in {WideViewport, NarrowViewport}
  /\ optDensity \in RequestDensities
  /\ WorkingDriver
  /\ width = innerWidth
  /\ conf_density = optDensity
  /\ color1 = DefaultColor1
  /\ u_color1 = << >>
  /\ material = NoMaterial
  /\ geometry = LET seg == DensitySegments(width, conf_density)
                IN NewPlaneGeometry(width, Height, seg[1], seg[2], XZ)
  /\ lastDraw = NoDraw
  /\ consoleErrors = 0
  /\ conf_wireframe = FALSE
  /\ wireframe = FALSE
  /\ hikariGL = NoHikariGL

TopologyNext ==
  \/ WriteQuad

TopologySpec == TopologyInit /\ [][TopologyNext]_vars

\* ------------------------------------- a Material that is constructed directly

\* new Material(gl, vertex, fragment, uniformMap, commonUniforms)
CreateMaterial ==
  /\ material = NoMaterial
  /\ lastOp = "none"
  /\ IF MaterialThrows(uniformMap, glCompiles, glLinks)
       THEN /\ lastOp' = "newMaterial_throw"
            /\ UNCHANGED <<material, consoleErrors>>
       ELSE /\ material' = NewMaterial(material, uniformMap, CommonUniforms,
                                       glUnresolved)
            /\ consoleErrors' = consoleErrors + MaterialErrors(glCompiles, glLinks)
            /\ lastOp' = "newMaterial"
  /\ UNCHANGED <<options, loop, environment, width, conf_density, color1,
                 u_color1, geometry, topologyCalls, lastDraw, quad, render, palette, noise,
                 debounce, declaration, camera>>

\* material.attachUniforms(undefined, uniformMap) called once more by the caller
AttachAgain ==
  /\ lastOp = "newMaterial"
  /\ material' = [material EXCEPT !.uniformInstances =
                     @ \o attachAll(uniformMap, glUnresolved)]
  /\ lastOp' = "attachUniforms"
  /\ UNCHANGED <<options, loop, environment, width, conf_density, color1,
                 u_color1, geometry, topologyCalls, lastDraw, consoleErrors, quad, render, palette, noise,
                 debounce, declaration, camera>>

\* A driver that may fail to compile, to link or to resolve, and a caller's
\* uniform map.
MaterialInit ==
  /\ kind = "balatro"
  /\ optMaxFrameTimeStep = DefaultMaxFrameTimeStep
  /\ optMouseInteraction = FALSE
  /\ selectorMatches = TRUE
  /\ Unmounted
  /\ DefaultPalette
  /\ innerWidth = WideViewport
  /\ optDensity = << >>
  /\ uniformMap \in UniformMaps
  /\ glCompiles \in SUBSET ShaderTypes
  /\ glLinks \in BOOLEAN
  /\ glUnresolved \in SUBSET LeafNames(uniformMap)
  /\ quad = NoQuad
  /\ optWireframe = FALSE
  /\ NoGraphics

MaterialNext ==
  \/ CreateMaterial
  \/ AttachAgain

MaterialSpec == MaterialInit /\ [][MaterialNext]_vars

\* ----------------------------------- a HikariGL that is constructed directly

\* the canvas sizes a caller asks for: 80x60 up to 800x600, 640x480 among them
Widths == {80 * i : i \in 1..SizeSteps}
Heights == {60 * i : i \in 1..SizeSteps}

\* the argument lists of setSize: nothing, a width, a width and a height
SetSizeArguments ==
  {<< >>} \cup {<<w>> : w \in Widths} \cup (Widths \X Heights)

\* the sizes handed to the constructor: none, a width alone, a width of 0,
\* a width and a height
ConstructorArguments ==
  {<< >>, <<WideViewport>>, <<0, Height>>, <<WideViewport, Height>>,
   <<DefaultWidth, DefaultHeight>>}

\* new HikariGL({canvas, width, height})
CreateHikariGL ==
  /\ lastOp = "none"
  /\ \E args \in ConstructorArguments :
       /\ hikariGL' = NewHikariGL(args)
       /\ lastOp' = IF hikariGL'.constructed THEN "newHikariGL"
                    ELSE "newHikariGL_throw"
  /\ projectionMatrix' =
       IF hikariGL'.constructed THEN IdentityMatrix ELSE projectionMatrix
  /\ UNCHANGED <<options, loop, environment, graphics, quad, conf_wireframe,
                 wireframe, palette, noise, debounce, declaration, conf_zoom,
                 conf_rotation>>

\* hikari.setSize(...args)
HikariResize ==
  /\ hikariGL.constructed
  /\ \E args \in SetSizeArguments :
       hikariGL' = HikariSetSize(hikariGL, args)
  /\ lastOp' = "hikari.setSize"
  /\ UNCHANGED <<options, loop, environment, graphics, quad, conf_wireframe,
                 wireframe, palette, noise, debounce, declaration, camera>>

\* A caller that constructs a HikariGL on a canvas and resizes it.
HikariInit ==
  /\ kind = "balatro"
  /\ optMaxFrameTimeStep = DefaultMaxFrameTimeStep
  /\ optMouseInteraction = FALSE
  /\ selectorMatches = TRUE
  /\ Unmounted
  /\ DefaultPalette
  /\ innerWidth = WideViewport
  /\ optDensity = << >>
  /\ WorkingDriver
  /\ NoGraphics

HikariNext ==
  \/ CreateHikariGL
  \/ HikariResize

HikariSpec == HikariInit /\ [][HikariNext]_vars

\* ------------------------------------------- an effect with the wireframe option

\* The effect with its default loop options, constructed with or without
\* wireframe: true.
WireframeInit ==
  /\ kind \in Kinds
  /\ optMaxFrameTimeStep = DefaultMaxFrameTimeStep
  /\ optMouseInteraction = FALSE
  /\ selectorMatches = TRUE
  /\ Unmounted
  /\ DefaultPalette
  /\ innerWidth = WideViewport
  /\ optDensity = IF kind = "balatro" THEN << >> ELSE <<1, 1>>
  /\ glCompiles = ShaderTypes
  /\ glLinks = TRUE
  /\ glUnresolved = {}
  /\ uniformMap = << >>
  /\ quad = NoQuad
  /\ optWireframe \in BOOLEAN
  /\ NoGraphics

WireframeNext ==
  \/ Mount
  \/ Frame
  \/ RunAnimate
  \/ RunDeferredInit
  \/ Resize
  \/ WindowResize

WireframeSpec == WireframeInit /\ [][WireframeNext]_vars

\* --------------------------------------- an effect constructed with colours

\* "#D4B", "#DE443B", "#DE443B80" and "#zzz" as the characters after the "#"
Short == <<13, 4, 11>>
Six == <<13, 14, 4, 4, 3, 11>>
WithAlpha == <<13, 14, 4, 4, 3, 11, 8, 0>>
Garbled == <<NonHex, NonHex, NonHex>>

\* the colour strings a caller hands to MorphGradient: the three hexadecimal
\* forms, "#zzz", a string without "#", a CSS variable the canvas has no
\* value for and one whose value is "#DE443B"
PaletteStrings ==
  {Hex(Short), Hex(Six), Hex(WithAlpha), Hex(Garbled), Word, CssVar(<< >>),
   CssVar(<<Hex(Six)>>)}

\* options.baseColor and options.waveColors, << >> when the option is absent
BaseColorOptions == {<< >>} \cup {<<c>> : c \in PaletteStrings}
WaveColorOptions ==
  {<< >>} \cup {<<ws>> : ws \in UNION {[1..n -> PaletteStrings] :
                                        n \in 1..MaxWaveColors}}

\* options.color1 of BalatroGradient
Color1Options == {Short, Six, WithAlpha}

\* The effect with its default loop options, constructed with colours.
ColorInit ==
  /\ kind \in Kinds
  /\ optMaxFrameTimeStep = DefaultMaxFrameTimeStep
  /\ optMouseInteraction = FALSE
  /\ selectorMatches = TRUE
  /\ Unmounted
  /\ optionBaseColor \in (IF kind = "morph" THEN BaseColorOptions ELSE {<< >>})
  /\ optionWaveColors \in (IF kind = "morph" THEN WaveColorOptions ELSE {<< >>})
  /\ innerWidth = WideViewport
  /\ optDensity = IF kind = "balatro" THEN << >> ELSE <<1, 1>>
  /\ WorkingDriver
  /\ width = innerWidth
  /\ conf_density = << >>
  /\ color1 \in (IF kind = "balatro" THEN Color1Options ELSE {DefaultColor1})
  /\ u_color1 = << >>
  /\ material = NoMaterial
  /\ geometry = NoGeometry
  /\ lastDraw = NoDraw
  /\ consoleErrors = 0
  /\ conf_wireframe = FALSE
  /\ wireframe = FALSE
  /\ hikariGL = NoHikariGL

ColorNext ==
  \/ Mount
  \/ Frame
  \/ RunAnimate
  \/ RunDeferredInit

ColorSpec == ColorInit /\ [][ColorNext]_vars

\* ------------------------------- a MorphGradient whose frequency is updated

\* the deltas handed to updateFrequency, in units of 1e-5
FrequencyDeltas == {-1, 1}

\* updateFrequency(delta)
UpdateFrequency ==
  /\ constructed
  /\ kind = "morph"
  /\ Idle
  /\ \E delta \in FrequencyDeltas :
       /\ freq[1] + delta \in (FreqX - FreqSteps)..(FreqX + FreqSteps)
       /\ freq' = <<freq[1] + delta, freq[2] + delta>>
  /\ lastOp' = "updateFrequency"
  /\ UNCHANGED <<options, loop, environment, graphics, quad, render, palette,
                 u_noiseFreq, debounce, declaration, camera>>

\* A MorphGradient with its default options.
FrequencyInit ==
  /\ kind = "morph"
  /\ optMaxFrameTimeStep = DefaultMaxFrameTimeStep
  /\ optMouseInteraction = FALSE
  /\ selectorMatches = TRUE
  /\ Unmounted
  /\ DefaultPalette
  /\ innerWidth = WideViewport
  /\ optDensity = <<1, 1>>
  /\ WorkingDriver
  /\ NoGraphics

FrequencyNext ==
  \/ Mount
  \/ Frame
  \/ RunAnimate
  \/ RunDeferredInit
  \/ UpdateFrequency

FrequencySpec == FrequencyInit /\ [][FrequencyNext]_vars

\* ------------------------------------------ the scroll-settle timer in time

\* the larger of two numbers
Max(a, b) == IF a >= b THEN a ELSE b

\* ElapseStep milliseconds pass on the clock the timers run on: every pending
\* timer comes this much closer to firing. (The timestamps of the animation
\* frames are not compared with this clock.)
Elapse ==
  /\ Idle
  /\ timers' = [i \in 1..Len(timers) |-> Max(timers[i] - ElapseStep, 0)]
  /\ sinceScroll' = Min(sinceScroll + ElapseStep, scrollingRefreshDelay)
  /\ lastOp' = "elapse"
  /\ UNCHANGED <<options, loop, environment, graphics, quad, render, palette,
                 noise, declaration, camera>>

\* The browser runs the handler of a timer whose delay has passed.
SettleTimer ==
  /\ timers # << >>
  /\ Head(timers) = 0
  /\ Idle
  /\ isIntersecting => Len(rafQueue) < MaxQueue
  /\ handleScrollEnd

\* The effect with its default loop options on a page that is scrolled.
ScrollInit ==
  /\ kind \in Kinds
  /\ optMaxFrameTimeStep = DefaultMaxFrameTimeStep
  /\ optMouseInteraction = FALSE
  /\ selectorMatches = TRUE
  /\ Unmounted
  /\ DefaultPalette
  /\ innerWidth = WideViewport
  /\ optDensity = IF kind = "balatro" THEN << >> ELSE <<1, 1>>
  /\ WorkingDriver
  /\ NoGraphics

ScrollNext ==
  \/ Mount
  \/ Frame
  \/ RunAnimate
  \/ RunDeferredInit
  \/ Scroll
  \/ Elapse
  \/ SettleTimer
  \/ Pause
  \/ Play
  \/ Disconnect

ScrollSpec == ScrollInit /\ [][ScrollNext]_vars

\* ------------------------------------- Uniform.getDeclaration called directly

\* excludeFrom of a uniform: absent, or one of the shader types
Exclusions == {"undefined"} \cup ShaderTypes

\* a uniform constructed with or without excludeFrom
WithExclusion(uniform, exclusion) ==
  IF exclusion = "undefined" THEN uniform ELSE Excluded(uniform, exclusion)

\* a struct of two fields, each constructed with or without excludeFrom
TwoFields(first, second) ==
  StructOf(<< <<"first", WithExclusion(Leaf("float"), first)>>,
              <<"second", WithExclusion(Leaf("vec2"), second)>> >>)

\* the uniforms getDeclaration is called on: a basic uniform, structs, arrays
\* of basic uniforms and of structs, an empty array, each with or without
\* excludeFrom
DeclaredUniforms ==
  LET shapes ==
        {Leaf("float"), ArrayOf(<<Leaf("float"), Leaf("float")>>),
         ArrayOf(<< >>)}
        \cup {TwoFields(a, b) : a \in Exclusions, b \in Exclusions}
        \cup {ArrayOf(<<TwoFields(a, "undefined")>>) : a \in Exclusions}
  IN {WithExclusion(u, e) : u \in shapes, e \in Exclusions}

\* uniform.getDeclaration(name, type) called on the uniform of the map
GetDeclaration ==
  /\ \E type \in ShaderTypes :
       LET name == uniformMap[1][1]
           uniform == uniformMap[1][2]
           throws == GetDeclarationThrows(uniform, type)
       IN declaration' =
            [name |-> name, stage |-> type,
             text |-> IF throws THEN << >>
                                ELSE getDeclaration(uniform, name, type, 0),
             threw |-> throws]
  /\ lastOp' = "getDeclaration"
  /\ UNCHANGED <<options, loop, environment, graphics, quad, render, palette,
                 noise, debounce, camera>>

\* A caller with one uniform.
DeclarationInit ==
  /\ kind = "balatro"
  /\ optMaxFrameTimeStep = DefaultMaxFrameTimeStep
  /\ optMouseInteraction = FALSE
  /\ selectorMatches = TRUE
  /\ Unmounted
  /\ DefaultPalette
  /\ innerWidth = WideViewport
  /\ optDensity = << >>
  /\ uniformMap \in {<< <<"u_test", u>> >> : u \in DeclaredUniforms}
  /\ glCompiles = ShaderTypes
  /\ glLinks = TRUE
  /\ glUnresolved = {}
  /\ quad = NoQuad
  /\ optWireframe = FALSE
  /\ NoGraphics

DeclarationNext == GetDeclaration

DeclarationSpec == DeclarationInit /\ [][DeclarationNext]_vars

\* ------------------------- a MorphGradient that is zoomed, rotated and resized

\* the zoom levels a caller hands to setZoom: -1, 0, 0.25, 0.5, 1 and 2
Zooms == {<<-1, 1>>, Zero, <<1, 4>>, Half, One, <<2, 1>>}

\* the angles a caller hands to setRotation, in degrees
Rotations == {0, 90, 180, 270}

\* setZoom(zoom)
SetZoom ==
  /\ constructed
  /\ Idle
  /\ \E zoom \in Zooms :
       /\ conf_zoom' = zoom
       /\ projectionMatrix' =
            IF hikari
              THEN applyTransformations(hikariGL.size, zoom, conf_rotation)
              ELSE projectionMatrix
  /\ lastOp' = "setZoom"
  /\ UNCHANGED <<options, loop, environment, graphics, quad, render, palette,
                 noise, debounce, declaration, conf_rotation>>

\* setRotation(rotation)
SetRotation ==
  /\ constructed
  /\ Idle
  /\ \E rotation \in Rotations :
       /\ conf_rotation' = rotation
       /\ projectionMatrix' =
            IF hikari
              THEN applyTransformations(hikariGL.size, conf_zoom, rotation)
              ELSE projectionMatrix
  /\ lastOp' = "setRotation"
  /\ UNCHANGED <<options, loop, environment, graphics, quad, render, palette,
                 noise, debounce, declaration, conf_zoom>>

\* A MorphGradient on a window that is resized, under a caller that zooms
\* and rotates it.
TransformInit ==
  /\ kind = "morph"
  /\ optMaxFrameTimeStep = DefaultMaxFrameTimeStep
  /\ optMouseInteraction = FALSE
  /\ selectorMatches \in BOOLEAN
  /\ Unmounted
  /\ DefaultPalette
  /\ innerWidth = WideViewport
  /\ optDensity = <<1, 1>>
  /\ WorkingDriver
  /\ NoGraphics

TransformNext ==
  \/ Mount
  \/ Frame
  \/ RunAnimate
  \/ RunDeferredInit
  \/ SetZoom
  \/ SetRotation
  \/ WindowResize
  \/ ViewportChange

TransformSpec == TransformInit /\ [][TransformNext]_vars

\* ------------------------------------------ an effect that is left to itself

\* The effect constructed on an existing canvas; nobody calls play() or
\* pause(), nothing scrolls, the document stays visible.
UndisturbedInit ==
  /\ Init
  /\ selectorMatches

UndisturbedNext ==
  \/ Mount
  \/ Frame
  \/ RunAnimate
  \/ RunDeferredInit

UndisturbedSpec == UndisturbedInit /\ [][UndisturbedNext]_vars

\* ------------------------------- an effect on a page that is hidden and shown

VisibilityNext ==
  \/ Mount
  \/ Frame
  \/ RunAnimate
  \/ RunDeferredInit
  \/ VisibilityChange

\* The effect of FairInit on a page that is hidden and shown again; the
\* browser keeps delivering animation frames and running their callbacks.
VisibilitySpec ==
  /\ FairInit
  /\ [][VisibilityNext]_vars
  /\ WF_vars(Frame)
  /\ WF_vars(RunAnimate)
  /\ WF_vars(RunDeferredInit)

\* --------------------------------- a MorphGradient that is paused and resumed

\* A MorphGradient on an existing canvas and a steady display, under a
\* caller that pauses and resumes it.
PauseInit ==
  /\ FairInit
  /\ kind = "morph"

PauseNext ==
  \/ Mount
  \/ SteadyFrame
  \/ RunAnimate
  \/ RunDeferredInit
  \/ Pause
  \/ Play

PauseSpec == PauseInit /\ [][PauseNext]_vars

\* ---------------------------------- a MorphGradient whose colours are toggled

\* toggleColor(index)
ToggleColor ==
  /\ constructed
  /\ Idle
  /\ \E index \in 0..MaxColorIndex :
       activeColors' = toggleColor(activeColors, index)
  /\ lastOp' = "toggleColor"
  /\ UNCHANGED <<options, loop, environment, graphics, quad, render,
                 optionBaseColor, optionWaveColors, sectionColors, noise,
                 debounce, declaration, camera>>

\* A MorphGradient on an existing canvas, under a caller that toggles colours.
ToggleInit ==
  /\ FairInit
  /\ kind = "morph"

ToggleNext ==
  \/ Mount
  \/ Frame
  \/ RunDeferredInit
  \/ RunAnimate
  \/ ToggleColor

ToggleSpec == ToggleInit /\ [][ToggleNext]_vars

TypeOK ==
  /\ kind \in Kinds
  /\ conf_playing \in BOOLEAN
  /\ listeners \subseteq ListenerNames
  /\ Len(rafQueue) <= MaxQueue
  /\ clock \in 0..MaxTime

\* ------------------------------------------------------------------ claims

\* a tick of the animation loop is processed (not skipped) in this step
ProcessedTick ==
  /\ RunAnimate
  /\ hikari
  /\ ~shouldSkipFrame(<<clock>>)

\* C1: on a connected effect at most one animate callback is pending at any
\* time, so at most one self-rescheduling animation chain is active.
C1_AtMostOneChain ==
  hikari => PendingAnimate <= 1

\* C2: right after a scroll event has been handled on an effect that is
\* intersecting, playback is paused (playing is false).
C2_ScrollPausesPlayback ==
  (lastOp \in {"scroll", "scroll_pause"} /\ isIntersecting) => ~conf_playing

\* C3: when disconnect() returns, none of the scroll, resize and pointer-move
\* listeners is registered, and in every later state the scroll and resize
\* listeners are still not registered.  (The pointer-move listener is left
\* out of the later states because setMouseInteraction(true) registers it on
\* the caller's request.)
C3_NoListenerAfterDisconnect ==
  disconnected =>
    /\ "scroll" \notin listeners
    /\ "resize" \notin listeners
    /\ (lastOp = "disconnect" => "mousemove" \notin listeners)

\* C4: once disconnect() has been called, playing is false and render() is
\* not invoked, in that state and in every later one.
C4_DisconnectedIsTerminal ==
  disconnected => (~conf_playing /\ lastOp # "animate_render")

\* C5: an animation tick that runs while the document is hidden or playing is
\* false, or that is called without a timestamp, leaves t, last, the uniforms
\* and the playing flag as they were, does not render and requests no frame.
C5_SkippedTickChangesNothing ==
  [][ ((RunAnimate /\ (hidden \/ ~conf_playing)) \/ CallAnimate)
        => /\ UNCHANGED <<t, last, u_time, mousePosition, conf_playing, rafQueue>>
           /\ lastOp' # "animate_render" ]_vars

C5_Witness ==
  /\ lastOp = "animate_skip"
  /\ ~conf_playing
  /\ mesh
  /\ last > 0

\* C6: while pause() has been called and play() has not been called since,
\* render() is not invoked, and eventually no animate callback is pending
\* (or play() is called again).
C6_PauseStopsLoop ==
  /\ [](pausedNoPlay => lastOp # "animate_render")
  /\ (pausedNoPlay ~> (~pausedNoPlay \/ PendingAnimate = 0))

C6_Witness ==
  /\ pausedNoPlay
  /\ lastOp = "animate_skip"
  /\ mesh
  /\ PendingAnimate = 0

\* C7: the first processed tick (last is still 0) leaves t where it was and
\* sets last to the tick's timestamp.
C7_FirstTickAddsNothing ==
  [][ (ProcessedTick /\ last = 0) => (t' = t /\ last' = clock) ]_vars

C9_DeltaNeverExceedsMaxFrameTimeStep ==
  [][ (optMaxFrameTimeStep # 0) => (t' - t <= optMaxFrameTimeStep * Scale) ]_vars

\* C10: the wrapper invokes onInit at most once, and when it has invoked it
\* for an effect whose canvas was found, the effect's mesh exists.
C10_OnInitAfterSetup ==
  /\ onInitCalls <= 1
  /\ (onInitCalls >= 1 /\ canvasElement) => mesh

\* the outcomes of a handler that ends in an exception
Throws ==
  {"animate_throw", "resize_throw", "windowResize_throw", "setDensity_throw",
   "init_throw"}

\* C11: an effect whose selector matches no element stays uninitialized: no
\* handler throws, no render context, material or mesh is created, no
\* listener is registered, and play(), pause(), resize(), setDensity() and
\* setColor1() neither throw nor lead to a render or a draw call.
C11_NoCanvasStaysUninitialized ==
  (constructed /\ ~selectorMatches) =>
    /\ lastOp \notin Throws
    /\ lastOp # "animate_render"
    /\ ~hikari
    /\ ~mesh
    /\ material = NoMaterial
    /\ geometry = NoGeometry
    /\ listeners = {}
    /\ lastDraw = NoDraw

C11_Witness ==
  /\ constructed
  /\ ~selectorMatches
  /\ lastOp = "animate_nocontext"
  /\ color1 = Black
  /\ conf_density = <<0, 0>>
  /\ ~conf_playing

\* C12: setColor1 called once the uniform set exists writes hexToVec4(color)
\* into u_color1 at once (black gives [0, 0, 0, 1]) and leaves the material
\* (program, binding list), the geometry and the mesh as they were; the next
\* draw pushes the value of u_color1.
C12_SetterWritesUniform ==
  /\ [][ (SetColor1 /\ mesh)
          => /\ u_color1' = hexToVec4(color1')
             /\ (color1' = Black => u_color1' = <<0, 0, 0, ColorMax>>)
             /\ UNCHANGED <<material, geometry, mesh>> ]_vars
  /\ [][ (RunAnimate /\ lastOp' = "animate_render" /\ mesh)
          => lastDraw'.u_color1 = u_color1 ]_vars

C12_Witness ==
  /\ lastOp = "animate_render"
  /\ color1 = Black
  /\ u_color1 = <<0, 0, 0, ColorMax>>
  /\ lastDraw.u_color1 = u_color1

\* a handler that has gone through resize() on an initialised effect
Resized == lastOp \in {"resize", "windowResize"} /\ mesh

\* C13: after the window went from the wide to the narrow viewport
\* (800x600 to 400x300) with density [0.01, 0.01], resize() leaves the
\* geometry with ceil(400 * 0.01) = 4 by ceil(300 * 0.01) = 3 segments and
\* an index buffer of 4 * 3 * 2 * 3 = 72 entries.
C13_ResizeRecomputesSegments ==
  (Resized /\ width = NarrowViewport /\ conf_density = <<1, 1>>)
    => LET xSeg == SegCount(NarrowViewport, 1)
           ySeg == SegCount(Height \div 2, 1)
       IN /\ geometry.xSegCount = xSeg
          /\ geometry.ySegCount = ySeg
          /\ geometry.index.len = xSeg * ySeg * 2 * 3

\* the buffers of a geometry fit its topology: 3 position values and 2 uv
\* and uvNorm values per vertex, every index entry names a vertex that the
\* position buffer holds
BuffersConsistent(g) ==
  /\ g.position.defined
  /\ g.position.len = 3 * g.vertexCount
  /\ g.uv.len = 2 * g.vertexCount
  /\ g.uvNorm.len = 2 * g.vertexCount
  /\ \A k \in 0..(g.index.len - 1) :
       3 * IndexAt(g.index, k) + 2 < g.position.len

\* C14: whenever an effect's tick has drawn the mesh, after any init,
\* resize() and setDensity() calls, the buffers fit the current topology.
C14_BuffersConsistentAtDraw ==
  (lastOp = "animate_render" /\ mesh) => BuffersConsistent(geometry)

\* C15: right after setTopology(xSegments, ySegments) with both counts at
\* least 1, vertexCount is (xSegments+1)*(ySegments+1), the triangle count
\* is xSegments*ySegments*2, the index buffer has 3 entries per triangle and
\* every index entry is below vertexCount.
C15_TopologyCounts ==
  (lastOp = "setTopology" /\ geometry.xSegCount >= 1 /\ geometry.ySegCount >= 1)
    => /\ geometry.vertexCount = (geometry.xSegCount + 1) * (geometry.ySegCount + 1)
       /\ geometry.quadCount = geometry.xSegCount * geometry.ySegCount * 2
       /\ geometry.index.len = 3 * geometry.quadCount
       /\ \A k \in 0..(geometry.index.len - 1) :
            IndexAt(geometry.index, k) < geometry.vertexCount

C15_Witness ==
  /\ lastOp = "setTopology"
  /\ geometry.xSegCount = 2
  /\ geometry.ySegCount = 1
  /\ geometry.index.len = 12
  /\ geometry.vertexCount = 6

\* C16: the six index entries stored for the cell whose top-left vertex is v
\* are v, v+1+xSegments, v+1 and v+1, v+1+xSegments, v+2+xSegments, for
\* every segment count derived from width, height and density.
C16_StoredIndexIsVertexIndex ==
  (lastOp = "writeQuad") =>
    LET v == VertexIndex(geometry.xSegCount, quad.x, quad.y)
        xSegments == geometry.xSegCount
    IN quad.stored = <<v, v + 1 + xSegments, v + 1,
                       v + 1, v + 1 + xSegments, v + 2 + xSegments>>

\* C17: setSize leaves uv, uvNorm and index as they were and uploads only
\* the positions; setTopology regenerates and uploads uv, uvNorm and index
\* together and leaves the position array as it was.
C17_SetSizeAndSetTopologyAreSeparate ==
  /\ [][ SetSize => /\ geometry'.uv = geometry.uv
                    /\ geometry'.uvNorm = geometry.uvNorm
                    /\ geometry'.index = geometry.index
                    /\ geometry'.uploaded = {"position"} ]_vars
  /\ [][ SetTopology
          => /\ geometry'.position = geometry.position
             /\ geometry'.uploaded = {"uv", "uvNorm", "index"}
             /\ geometry'.uv.xSeg = geometry'.xSegCount
             /\ geometry'.uvNorm.xSeg = geometry'.xSegCount
             /\ geometry'.index.xSeg = geometry'.xSegCount ]_vars

C17_Witness ==
  /\ lastOp = "setSize"
  /\ geometry.uploaded = {"position"}
  /\ geometry.width = 20
  /\ geometry.position.axes[2] # Zeros
  /\ geometry.position.axes[3] # Zeros

\* the binding list holds one entry per leaf uniform that resolves
OnePairPerResolvedLeaf(m, uniforms) ==
  /\ \A i \in DOMAIN m.uniformInstances :
       m.uniformInstances[i].location # Null
  /\ \A name \in (LeafNames(uniforms) \cup LeafNames(CommonUniforms)) \ glUnresolved :
       Cardinality({i \in DOMAIN m.uniformInstances :
                      m.uniformInstances[i].name = name}) = 1
  /\ \A i \in DOMAIN m.uniformInstances :
       m.uniformInstances[i].name \in LeafNames(uniforms) \cup LeafNames(CommonUniforms)

\* C18: right after a Material has been constructed its binding list holds
\* exactly one (uniform, location) pair per leaf uniform whose location
\* resolves, under the names base[i] and base.field; leaves that do not
\* resolve, arrays and structs are not in the list.
C18_BindingListHoldsResolvedLeaves ==
  (lastOp = "newMaterial") => OnePairPerResolvedLeaf(material, uniformMap)

\* C19: when a shader fails to compile or the program fails to link, the
\* Material constructor does not throw: it returns with both shaders
\* attached, the link attempted, the uniforms bound and the failure logged.
C19_ShaderFailureIsLogged ==
  ( /\ lastOp \in {"newMaterial", "newMaterial_throw"}
    /\ (glCompiles # ShaderTypes \/ ~glLinks)
    /\ \A i \in 1..Len(uniformMap) : ~DeclarationThrows(uniformMap[i][2]) )
    => /\ lastOp = "newMaterial"
       /\ material.attachedShaders = 2
       /\ material.linkAttempted
       /\ Len(material.uniformInstances) =
            Cardinality(LeafNames(uniformMap)) + Cardinality(LeafNames(CommonUniforms))
       /\ consoleErrors >= 1

C19_Witness ==
  /\ lastOp = "newMaterial"
  /\ glCompiles = {"vertex"}
  /\ ~glLinks
  /\ consoleErrors = 2
  /\ Len(material.uniformInstances) > Len(CommonUniforms)

\* C20: Mesh.draw() issues no drawElements call when the index buffer has
\* no entries.
C20_NoDrawOnEmptyIndex ==
  (lastOp = "draw" /\ geometry.index.len = 0) => ~lastDraw.issued

\* the runs of `calls` that are calls of one of `methods`
CallsOf(calls, methods) ==
  SelectSeq(calls, LAMBDA r : r.call \in methods)

\* C21: one Mesh.draw() activates the program, then pushes every uniform
\* binding, then uses every attribute binding, then issues exactly one
\* indexed draw call over all index entries, its last call: in LINES mode
\* with line width 1.5 if wireframe is enabled, in TRIANGLES mode otherwise.
C21_DrawOrder ==
  (lastOp = "animate_render" /\ mesh)
    => /\ CallsOf(lastDraw.calls, {"useProgram", "update", "use", "drawElements"})
            = << Run("useProgram", 1),
                 Run("update", Len(material.uniformInstances)),
                 Run("use", Cardinality(AttributeNames)),
                 Run("drawElements", 1) >>
       /\ lastDraw.calls[Len(lastDraw.calls)].call = "drawElements"
       /\ lastDraw.count = geometry.index.len
       /\ lastDraw.mode = IF wireframe THEN "LINES" ELSE "TRIANGLES"
       /\ wireframe => lastDraw.lineWidth = LineWidth

C21_Witness ==
  /\ lastOp = "animate_render"
  /\ mesh
  /\ wireframe
  /\ lastDraw.mode = "LINES"
  /\ lastDraw.count > 0
  /\ Len(material.uniformInstances) > Len(CommonUniforms)

\* C26: every effect, BalatroGradient included, constructed with
\* wireframe: true has its mesh in wireframe mode after initialisation and
\* after every resize().
C26_WireframeHonoured ==
  (optWireframe /\ mesh /\ lastOp \in {"init", "resize", "windowResize"})
    => wireframe

\* C22: after any sequence of HikariGL.setSize calls (omitted arguments
\* default to 640 and 480) the stored width and height, the canvas size, the
\* viewport, the resolution uniform and the aspectRatio uniform (width /
\* height) are those of the last call.
C22_SizeFollowsLastSetSize ==
  (hikariGL.constructed /\ hikariGL.lastSetSize # << >>)
    => LET args == hikariGL.lastSetSize[1]
           w == IF Len(args) >= 1 THEN args[1] ELSE 640
           h == IF Len(args) >= 2 THEN args[2] ELSE 480
       IN /\ hikariGL.size = <<w, h>>
          /\ hikariGL.canvas = <<w, h>>
          /\ hikariGL.viewport = <<0, 0, w, h>>
          /\ hikariGL.resolution = <<w, h>>
          /\ hikariGL.aspectRatio[1] * h = hikariGL.aspectRatio[2] * w

C22_Witness ==
  /\ lastOp = "hikari.setSize"
  /\ hikariGL.lastSetSize = << <<320>> >>
  /\ hikariGL.size = <<320, 480>>
  /\ hikariGL.aspectRatio = <<2, 3>>

\* the constructor was handed a width and a height
SizeSupplied ==
  /\ lastOp \in {"newHikariGL", "newHikariGL_throw"}
  /\ hikariGL.lastSetSize # << >>

\* C23: constructing HikariGL with both width and height completes, and
\* afterwards width/height, the canvas size and the resolution and
\* aspectRatio uniforms are the supplied values, as after setSize.
C23_ConstructorSetsSize ==
  SizeSupplied
    => LET args == hikariGL.lastSetSize[1]
       IN /\ hikariGL.constructed
          /\ hikariGL.size = args
          /\ hikariGL.canvas = args
          /\ hikariGL.resolution = args
          /\ hikariGL.aspectRatio = Ratio(args[1], args[2])

\* the colour a hexadecimal colour string of the form #RGB, #RRGGBB or
\* #RRGGBBAA denotes: [r, g, b, a] in units of 1/ColorMax
Denoted(digits) ==
  LET d == IF Len(digits) = 3 THEN Doubled(digits) ELSE digits
  IN <<ParseByte(d, 1), ParseByte(d, 3), ParseByte(d, 5),
       IF Len(d) = 8 THEN ParseByte(d, 7) ELSE ColorMax>>

\* the [r, g, b] of a colour
Rgb(color) == <<color[1], color[2], color[3]>>

\* the string is "#" and three, six or eight hexadecimal digits
WellFormed(color) ==
  /\ color.form = "hex"
  /\ Len(color.digits) \in {3, 6, 8}
  /\ \A i \in 1..Len(color.digits) : color.digits[i] # NonHex

\* the string is malformed hex, or a CSS variable that has no value or one
\* that is malformed hex
NeedsFallback(color) ==
  IF color.form = "var"
    THEN color.value = << >> \/ ~WellFormed(color.value[1])
    ELSE ~WellFormed(color)

\* waveColorSources of initGradientColors
WaveColorSources ==
  IF optionWaveColors # << >> /\ Len(optionWaveColors[1]) > 0
    THEN optionWaveColors[1] ELSE DefaultWaveColors

\* C24: MorphGradient's colour initialisation does not throw, ends with a
\* base colour and at least one wave layer, and a base or wave colour that is
\* malformed hex or an unresolvable CSS variable is replaced by the default
\* colour of its place (#a960ee, #ff333d / #90e0ff / #ffcb57).
C24_FallsBackToDefaults ==
  (kind = "morph" /\ (mesh \/ lastOp = "init_throw"))
    => /\ lastOp # "init_throw"
       /\ Len(sectionColors) >= 2
       /\ (optionBaseColor # << >> /\ NeedsFallback(optionBaseColor[1]))
            => sectionColors[1] = Rgb(Denoted(DefaultBaseColor.digits))
       /\ \A i \in 1..Len(WaveColorSources) :
            NeedsFallback(WaveColorSources[i])
              => /\ i + 1 <= Len(sectionColors)
                 /\ sectionColors[i + 1] = Rgb(Denoted(DefaultWave(i - 1).digits))

\* C25: a colour string of the form #RGB, #RRGGBB or #RRGGBBAA handed to an
\* effect becomes the channel values of the colour it denotes: u_color1 of
\* BalatroGradient for color1, the base colour of MorphGradient for baseColor.
C25_HexFormsParsed ==
  /\ (kind = "balatro" /\ mesh /\ Len(color1) \in {3, 6, 8})
       => u_color1 = Denoted(color1)
  /\ (kind = "morph" /\ mesh /\ optionBaseColor # << >>
        /\ WellFormed(optionBaseColor[1]))
       => sectionColors[1] = Rgb(Denoted(optionBaseColor[1].digits))

\* C27: updateFrequency(delta) on an initialised MorphGradient adds delta to
\* freqX and to freqY, and the noise frequency pushed at every draw is
\* [freqX, freqY].
C27_FrequencyReachesUniform ==
  /\ [][ (UpdateFrequency /\ mesh)
          => \E delta \in FrequencyDeltas :
               freq' = <<freq[1] + delta, freq[2] + delta>> ]_vars
  /\ [][ (RunAnimate /\ lastOp' = "animate_render" /\ kind = "morph")
          => lastDraw'.u_noiseFreq = freq' ]_vars

\* C28: in a tick that renders, u_time is assigned before render(): the
\* u_time the draw pushes is the value computed from the time accumulator of
\* this very tick. A tick and a resize handler are each one uninterrupted
\* step: a tick changes nothing that resize() writes, a resize handler nothing
\* that a tick writes.
C28_UniformBeforeRender ==
  /\ [][ (RunAnimate /\ lastOp' = "animate_render" /\ mesh)
          => /\ u_time' = TimeUniform(t')
             /\ lastDraw'.u_time = u_time' ]_vars
  /\ [][ RunAnimate
          => UNCHANGED <<width, geometry, hikariGL, wireframe, listeners>> ]_vars
  /\ [][ (Resize \/ WindowResize)
          => UNCHANGED <<t, last, u_time, lastDraw, rafQueue, frameBatch>> ]_vars

C28_Witness ==
  /\ lastOp = "animate_render"
  /\ mesh
  /\ u_time # <<0, 1>>
  /\ u_time = TimeUniform(t)
  /\ lastDraw.u_time = u_time

\* C29: at most one scroll-settle timer is pending; a pending timer goes
\* away only by running or in a scroll event, which sets a new one with the
\* full delay; handleScrollEnd runs only when scrollingRefreshDelay (200 ms)
\* have passed since the latest scroll event.
C29_OneDebouncedTimer ==
  /\ [](Len(timers) <= 1)
  /\ [][ (timers # << >> /\ timers' = << >>)
          => lastOp' \in {"scrollEnd", "scrollEnd_play"} ]_vars
  /\ [][ lastOp' \in {"scroll", "scroll_pause"}
          => timers' = <<scrollingRefreshDelay>> ]_vars
  /\ [][ lastOp' \in {"scrollEnd", "scrollEnd_play"}
          => sinceScroll >= scrollingRefreshDelay ]_vars

C29_Witness ==
  /\ lastOp \in {"scrollEnd", "scrollEnd_play"}
  /\ sinceScroll = scrollingRefreshDelay
  /\ timers = << >>
  /\ ~isScrolling

\* the words of a declaration
Words(text) == {text[i] : i \in 1..Len(text)}

EndsWith(text, tail) ==
  /\ Len(text) >= Len(tail)
  /\ SubSeq(text, Len(text) - Len(tail) + 1, Len(text)) = tail

\* u_waveLayers of the material MorphGradient.initMaterial builds from its
\* section colours
WaveLayersUniform == EffectUniforms("morph", sectionColors)[8][2]

\* C31: getDeclaration of the array uniform an effect constructs (u_waveLayers
\* of MorphGradient, n struct elements) does not throw and returns, for both
\* shader types, the braced struct body followed by `u_waveLayers[n];` and the
\* constant `const int u_waveLayers_length = n;`.
C31_ArrayDeclaration ==
  (kind = "morph" /\ (mesh \/ lastOp = "init_throw"))
    => \A type \in ShaderTypes :
         /\ ~GetDeclarationThrows(WaveLayersUniform, type)
         /\ LET n == ToString(Len(WaveLayersUniform.value))
                text == getDeclaration(WaveLayersUniform, "u_waveLayers", type, 0)
            IN /\ SubSeq(text, 1, 4)
                    = <<"uniform", "struct", StructName("u_waveLayers"), "{">>
               /\ EndsWith(text,
                           <<"}", "u_waveLayers", "[", n, "]", ";", "\n", "const",
                             "int", "u_waveLayers_length", "=", n, ";">>)

\* the matrix of an orthographic projection of a width x height canvas that
\* is scaled by `zoom` and turned by `rotation` degrees
Transformed(size, zoom, rotation) ==
  IF size = << >>
    THEN IF rotation = 0 THEN <<NaN, Zero, Zero, NaN>> ELSE <<NaN, NaN, NaN, NaN>>
    ELSE <<Times(Fraction(2, size[1]), Times(zoom, Cos(rotation))),
           Times(Fraction(2, size[1]), Times(zoom, Sin(rotation))),
           Times(Fraction(-2, size[2]), Times(zoom, Sin(rotation))),
           Times(Fraction(2, size[2]), Times(zoom, Cos(rotation)))>>

\* C32: once a MorphGradient has computed its projection (setZoom,
\* setRotation or resize with a render context), the matrix is the one of the
\* current width and height, the current rotation and the zoom max(0.5, z) of
\* the latest setZoom(z), whatever calls came before.
C32_ProjectionOfCurrentValues ==
  (kind = "morph" /\ hikari /\ projectionMatrix # IdentityMatrix)
    => projectionMatrix =
         Transformed(hikariGL.size,
                     IF conf_zoom[1] * 2 >= conf_zoom[2] THEN conf_zoom ELSE Half,
                     conf_rotation)

C32_Witness ==
  /\ lastOp = "setZoom"
  /\ mesh
  /\ hikariGL.size = <<NarrowViewport, Height>>
  /\ conf_zoom = <<1, 4>>
  /\ conf_rotation = 90
  /\ projectionMatrix =
       <<Zero, Fraction(1, NarrowViewport), Fraction(-1, Height), Zero>>

\* C33: on an effect left to itself, every animation frame delivered after
\* the initialisation runs exactly one animate callback, so render() is
\* invoked once per frame.
C33_OneRenderPerFrame ==
  (mesh /\ lastOp = "frame") => CountAnimate(frameBatch) = 1

\* C34: whenever the effect is initialised, connected and playing and the
\* document is visible, an animate callback is pending between two frames, so
\* that the next frame renders without a further play().
C34_PlayingKeepsRendering ==
  (mesh /\ hikari /\ ~disconnected /\ conf_playing /\ ~hidden /\ Idle)
    => PendingAnimate >= 1

\* C35: neither resize() (called directly or by the resize listener) nor
\* setDensity() ends in an exception, at any point of the effect's lifecycle.
C35_ResizeAndSetDensityNeverThrow ==
  lastOp \notin {"resize_throw", "windowResize_throw", "setDensity_throw"}

\* C36: however setColor1 calls and the deferred initialisation interleave,
\* on the initialised BalatroGradient u_color1 holds the colour of the latest
\* setColor1 call (of the constructor, if there was none).
C36_UniformHoldsLatestValue ==
  (kind = "balatro" /\ mesh) => u_color1 = hexToVec4(color1)

C36_Witness ==
  /\ kind = "balatro"
  /\ lastOp = "init"
  /\ color1 = Black
  /\ u_color1 = <<0, 0, 0, ColorMax>>

\* C37: on a display that delivers a frame every 16 ms, no processed tick of
\* MorphGradient adds more than one frame interval to t, also not the first
\* one after play() has resumed a paused effect.
C37_PauseIsNotAnimated ==
  [][ (ProcessedTick /\ kind = "morph") => t' - t <= DeltaFast ]_vars

\* C38: the plane of an initialised BalatroGradient has orientation 'xy',
\* also after resize(): its vertices are spread over the width on the x axis
\* and over the height on the y axis, and z is 0.
C38_OrientationKept ==
  (kind = "balatro" /\ mesh)
    => /\ geometry.orientation = XY
       /\ geometry.position.axes =
            <<Written("xPos", geometry.width, geometry.xSegCount, geometry.ySegCount),
              Written("yPos", geometry.height, geometry.xSegCount, geometry.ySegCount),
              Zeros>>

\* C39: the array bound to u_active_colors (uniforms.u_active_colors.value is
\* the activeColors array itself) has exactly 4 entries, each of them 0 or 1,
\* after any sequence of toggleColor calls.
C39_FourFlags ==
  (kind = "morph" /\ mesh)
    => /\ Len(activeColors) = 4
       /\ \A i \in 1..Len(activeColors) : activeColors[i] \in {<<0>>, <<1>>}

\* C40: every setTopology call an effect makes (at mesh creation, on resize()
\* and on setDensity()) passes segment counts that are both at least 1, so that
\* the texture coordinates x / xSegCount and 1 - y / ySegCount are numbers.
C40_SegmentsAtLeastOne ==
  \A i \in DOMAIN topologyCalls :
    /\ topologyCalls[i][1] >= 1
    /\ topologyCalls[i][2] >= 1

====
